---------------------------- MODULE Spec2Model ----------------------------
(***************************************************************************)
(* NLP2SQLDM: the semantic cache (SemanticCacheService), the generateSql   *)
(* pipeline that uses it, and the SQL text functions the pipeline calls    *)
(* (formatSqlCasing, validateSqlSyntax).                                   *)
(*                                                                         *)
(* Texts are sequences of one-character strings.  Several server           *)
(* processes share one cache file; every process runs several requests     *)
(* concurrently, each suspended at its awaits.                             *)
(***************************************************************************)
EXTENDS Integers, Sequences, FiniteSets, TLC

(***************************************************************************)
(* TEXT: characters, case mapping, searching                               *)
(***************************************************************************)

LowerLetters ==
    <<"a", "b", "c", "d", "e", "f", "g", "h", "i", "j", "k", "l", "m",
      "n", "o", "p", "q", "r", "s", "t", "u", "v", "w", "x", "y", "z">>

UpperLetters ==
    <<"A", "B", "C", "D", "E", "F", "G", "H", "I", "J", "K", "L", "M",
      "N", "O", "P", "Q", "R", "S", "T", "U", "V", "W", "X", "Y", "Z">>

Digits == {"0", "1", "2", "3", "4", "5", "6", "7", "8", "9"}

Range(f) == {f[i] : i \in DOMAIN f}

IndexIn(seq, c) == CHOOSE i \in DOMAIN seq : seq[i] = c

\* the characters f[1], ..., f[n] as a tuple (evaluated once, not at every use)
Chars(f, n) == SubSeq(f, 1, n)

\* U+212A KELVIN SIGN, a character outside ASCII: toLowerCase() maps it to
\* "k", toUpperCase() leaves it, \w does not contain it, and without the u flag
\* the i flag does not make it match K or k
KelvinSign == "U+212A"

\* U+0130 LATIN CAPITAL LETTER I WITH DOT ABOVE: toLowerCase() maps it to the
\* two characters i and U+0307 COMBINING DOT ABOVE
DottedI == "U+0130"

CombiningDot == "U+0307"

\* String.prototype.toUpperCase / toLowerCase on one character
UpperChar(c) == IF c \in Range(LowerLetters) THEN UpperLetters[IndexIn(LowerLetters, c)] ELSE c

LowerChar(c) ==
    IF c \in Range(UpperLetters) THEN LowerLetters[IndexIn(UpperLetters, c)]
    ELSE IF c = KelvinSign THEN "k"
    ELSE c

toUpperCase(s) == Chars([i \in 1..Len(s) |-> UpperChar(s[i])], Len(s))

\* the lower case of a text with a character whose lower case is two characters
RECURSIVE LowerFrom(_, _)
LowerFrom(s, i) ==
    IF i > Len(s) THEN <<>>
    ELSE (IF s[i] = DottedI THEN <<"i", CombiningDot>> ELSE <<LowerChar(s[i])>>)
            \o LowerFrom(s, i + 1)

toLowerCase(s) ==
    IF \E i \in 1..Len(s) : s[i] = DottedI THEN LowerFrom(s, 1)
    ELSE Chars([i \in 1..Len(s) |-> LowerChar(s[i])], Len(s))

\* the regular expression classes \w and \s
IsWordChar(c) == c \in Range(LowerLetters) \cup Range(UpperLetters) \cup Digits \cup {"_"}

IsSpace(c) == c \in {" ", "\n", "\t", "\r"}

\* \b between s[i] and s[i+1] (i = 0 and i = Len(s) are the two ends)
WordBoundary(s, i) ==
    ((i >= 1) /\ IsWordChar(s[i])) # ((i < Len(s)) /\ IsWordChar(s[i + 1]))

\* pat occurs in s at position j, compared exactly
OccursAt(s, j, pat) ==
    /\ j >= 1
    /\ j + Len(pat) - 1 <= Len(s)
    /\ \A k \in 1..Len(pat) : s[j + k - 1] = pat[k]

\* String.prototype.includes / startsWith
Includes(s, pat) == \E j \in 1..(Len(s) + 1) : OccursAt(s, j, pat)

StartsWith(s, pat) == OccursAt(s, 1, pat)

\* (s.match(/c/g) || []).length
CountChar(s, c) == Cardinality({i \in 1..Len(s) : s[i] = c})

\* String.prototype.trim
Trim(s) ==
    LET keep == {i \in 1..Len(s) : ~IsSpace(s[i])}
    IN  IF keep = {} THEN <<>>
        ELSE LET lo == CHOOSE i \in keep : \A j \in keep : i <= j
                 hi == CHOOSE i \in keep : \A j \in keep : i >= j
             IN  SubSeq(s, lo, hi)

\* s.replace(/pat/g, ''), pat a literal: leftmost matches, left to right
RECURSIVE RemoveAllFrom(_, _, _)
RemoveAllFrom(s, i, pat) ==
    IF i > Len(s) THEN <<>>
    ELSE IF OccursAt(s, i, pat) THEN RemoveAllFrom(s, i + Len(pat), pat)
    ELSE <<s[i]>> \o RemoveAllFrom(s, i + 1, pat)

RemoveAll(s, pat) == RemoveAllFrom(s, 1, pat)

\* s.replace(/\s+/g, ' ')
RECURSIVE CollapseFrom(_, _)
CollapseFrom(s, i) ==
    IF i > Len(s) THEN <<>>
    ELSE IF IsSpace(s[i])
         THEN IF i > 1 /\ IsSpace(s[i - 1]) THEN CollapseFrom(s, i + 1)
              ELSE <<" ">> \o CollapseFrom(s, i + 1)
    ELSE <<s[i]>> \o CollapseFrom(s, i + 1)

CollapseSpaces(s) == CollapseFrom(s, 1)

\* new RegExp(`\\b${word}\\b`, 'i') matches in s at position j
WordMatchAt(s, j, word) ==
    /\ j >= 1
    /\ j + Len(word) - 1 <= Len(s)
    /\ \A k \in 1..Len(word) : UpperChar(s[j + k - 1]) = UpperChar(word[k])
    /\ WordBoundary(s, j - 1)
    /\ WordBoundary(s, j + Len(word) - 1)

\* regex.test(s)
WordTest(s, word) == \E j \in 1..Len(s) : WordMatchAt(s, j, word)

(***************************************************************************)
(* formatSqlCasing (execution.service)                                     *)
(***************************************************************************)

keywords ==
    << <<"S", "E", "L", "E", "C", "T">>,
       <<"F", "R", "O", "M">>,
       <<"W", "H", "E", "R", "E">>,
       <<"J", "O", "I", "N">>,
       <<"I", "N", "N", "E", "R">>,
       <<"L", "E", "F", "T">>,
       <<"R", "I", "G", "H", "T">>,
       <<"O", "U", "T", "E", "R">>,
       <<"F", "U", "L", "L">>,
       <<"O", "N">>,
       <<"A", "N", "D">>,
       <<"O", "R">>,
       <<"N", "O", "T">>,
       <<"I", "N">>,
       <<"L", "I", "K", "E">>,
       <<"B", "E", "T", "W", "E", "E", "N">>,
       <<"I", "S">>,
       <<"N", "U", "L", "L">>,
       <<"G", "R", "O", "U", "P", " ", "B", "Y">>,
       <<"O", "R", "D", "E", "R", " ", "B", "Y">>,
       <<"H", "A", "V", "I", "N", "G">>,
       <<"D", "I", "S", "T", "I", "N", "C", "T">>,
       <<"A", "S">>,
       <<"C", "A", "S", "E">>,
       <<"W", "H", "E", "N">>,
       <<"T", "H", "E", "N">>,
       <<"E", "L", "S", "E">>,
       <<"E", "N", "D">>,
       <<"U", "N", "I", "O", "N">>,
       <<"A", "L", "L">>,
       <<"L", "I", "M", "I", "T">>,
       <<"O", "F", "F", "S", "E", "T">>,
       <<"F", "E", "T", "C", "H">>,
       <<"F", "I", "R", "S", "T">>,
       <<"N", "E", "X", "T">>,
       <<"R", "O", "W", "S">>,
       <<"O", "N", "L", "Y">>,
       <<"W", "I", "T", "H">>,
       <<"O", "V", "E", "R">>,
       <<"P", "A", "R", "T", "I", "T", "I", "O", "N">> >>

\* the matches <<n, j>> of new RegExp(`\\b${keywords[n]}\\b`, 'gi') in s, j the
\* position where the match starts
KeywordMatches(s) ==
    {m \in (DOMAIN keywords) \X (1..Len(s)) : WordMatchAt(s, m[2], keywords[m[1]])}

\* keywords.forEach(keyword => { formattedSql = formattedSql.replace(regex,
\* keyword.toUpperCase()) }).  A replacement changes letter case only and the
\* matching ignores case, so every keyword matches in the text the earlier
\* keywords rewrote exactly where it matches in s, and two matches that cover
\* one character write the same letter there: the rounds are taken in one pass.
KeywordPass(s) ==
    LET Covers(m, i) == m[2] <= i /\ i < m[2] + Len(keywords[m[1]])
        \* the matches that cover position i
        MatchesOver(i) ==
            {m \in (DOMAIN keywords) \X (1..i) :
                Covers(m, i) /\ WordMatchAt(s, m[2], keywords[m[1]])}
        Rewritten(i, over) ==
            IF over = {} THEN s[i]
            ELSE LET m == CHOOSE m \in over : TRUE
                 IN  toUpperCase(keywords[m[1]])[i - m[2] + 1]
    IN  Chars([i \in 1..Len(s) |-> Rewritten(i, MatchesOver(i))], Len(s))

IsSeparator(c) == IsSpace(c) \/ c \in {",", "(", ")", ";"}

\* formattedSql.split(/(\s+|,|\(|\)|;)/): the pieces between separators and the
\* separators themselves (a whitespace run is one separator), in order.  The
\* empty pieces that split() puts between adjacent separators are left out:
\* the mapping returns them unchanged and join('') drops them.
RECURSIVE SplitFrom(_, _)
SplitFrom(s, i) ==
    IF i > Len(s) THEN <<>>
    ELSE LET same(k) == IF IsSpace(s[i]) THEN IsSpace(s[k])
                        ELSE IF IsSeparator(s[i]) THEN k = i
                        ELSE ~IsSeparator(s[k])
             e == CHOOSE e \in i..Len(s) :
                      /\ \A k \in i..e : same(k)
                      /\ (e = Len(s) \/ ~same(e + 1))
         IN  <<SubSeq(s, i, e)>> \o SplitFrom(s, e + 1)

\* a split without the capturing group: the separators are dropped
SplitTokensWithoutSeparators(s) ==
    SelectSeq(SplitFrom(s, 1), LAMBDA piece : ~IsSeparator(piece[1]))

SplitTokens(s) == SplitFrom(s, 1)

uppercaseKeywords == {toUpperCase(keywords[n]) : n \in DOMAIN keywords}

\* the callback of tokens.map(...)
ProcessToken(token) ==
    LET trimmed == Trim(token)
        upper   == toUpperCase(trimmed)
    IN  IF \/ trimmed = <<>>
           \/ (Len(trimmed) = 1 /\ trimmed[1] \in {",", "(", ")", ";"})
           \/ upper \in uppercaseKeywords
        THEN token
        ELSE IF \E n \in DOMAIN keywords : upper = toUpperCase(keywords[n])
        THEN token
        ELSE IF "." \in Range(trimmed)
        THEN toLowerCase(trimmed)
        ELSE IF \/ \A i \in 1..Len(trimmed) : trimmed[i] \in Digits
                \/ trimmed[1] \in {"'", "\""}
        THEN token
        ELSE toLowerCase(trimmed)

\* processedTokens.join('')
RECURSIVE JoinTokens(_)
JoinTokens(tokens) ==
    IF tokens = <<>> THEN <<>> ELSE Head(tokens) \o JoinTokens(Tail(tokens))

formatSqlCasing(sql) ==
    LET formattedSql == KeywordPass(sql)
        tokens == SplitTokens(formattedSql)
        processedTokens == Chars([n \in 1..Len(tokens) |-> ProcessToken(tokens[n])], Len(tokens))
    IN  JoinTokens(processedTokens)

(***************************************************************************)
(* validateSqlSyntax (guardrails.service)                                  *)
(***************************************************************************)

prohibitedOperations ==
    << <<"D", "R", "O", "P">>,
       <<"D", "E", "L", "E", "T", "E">>,
       <<"U", "P", "D", "A", "T", "E">>,
       <<"I", "N", "S", "E", "R", "T">>,
       <<"A", "L", "T", "E", "R">>,
       <<"C", "R", "E", "A", "T", "E">>,
       <<"T", "R", "U", "N", "C", "A", "T", "E">>,
       <<"G", "R", "A", "N", "T">>,
       <<"R", "E", "V", "O", "K", "E">> >>

\* the keywords of the typo check
typoKeywords ==
    << <<"S", "E", "L", "E", "C", "T">>,
       <<"F", "R", "O", "M">>,
       <<"W", "H", "E", "R", "E">>,
       <<"J", "O", "I", "N">>,
       <<"O", "N">>,
       <<"G", "R", "O", "U", "P", " ", "B", "Y">>,
       <<"O", "R", "D", "E", "R", " ", "B", "Y">>,
       <<"H", "A", "V", "I", "N", "G">> >>

\* keyword.replace(' ', ''): the first space removed
RemoveFirstSpace(keyword) ==
    IF " " \in Range(keyword)
    THEN LET i == CHOOSE i \in 1..Len(keyword) :
                      keyword[i] = " " /\ \A j \in 1..(i - 1) : keyword[j] # " "
         IN  SubSeq(keyword, 1, i - 1) \o SubSeq(keyword, i + 1, Len(keyword))
    ELSE keyword

\* new RegExp(`\\b${keyword.replace(' ', '\\s+')}\\b`, 'i').test(s): the keyword's
\* first space stands for a run of one or more whitespace characters
TypoRegexTest(s, keyword) ==
    IF " " \in Range(keyword)
    THEN LET i == CHOOSE i \in 1..Len(keyword) :
                      keyword[i] = " " /\ \A j \in 1..(i - 1) : keyword[j] # " "
             first == SubSeq(keyword, 1, i - 1)
             rest  == SubSeq(keyword, i + 1, Len(keyword))
         IN  \E j \in 1..Len(s) : \E g \in 1..Len(s) :
                /\ j + Len(first) + g + Len(rest) - 1 <= Len(s)
                /\ WordBoundary(s, j - 1)
                /\ \A k \in 1..Len(first) : UpperChar(s[j + k - 1]) = UpperChar(first[k])
                /\ \A k \in 1..g : IsSpace(s[j + Len(first) + k - 1])
                /\ \A k \in 1..Len(rest) :
                      UpperChar(s[j + Len(first) + g + k - 1]) = UpperChar(rest[k])
                /\ WordBoundary(s, j + Len(first) + g + Len(rest) - 1)
    ELSE WordTest(s, keyword)

\* the elements of seq that satisfy Keep, in order
RECURSIVE SelectIndices(_, _, _)
SelectIndices(n, Keep(_), i) ==
    IF i > n THEN <<>>
    ELSE (IF Keep(i) THEN <<i>> ELSE <<>>) \o SelectIndices(n, Keep, i + 1)

\* a denylist that looks for the operation anywhere in the text
ProhibitedAnywhere(upperSql, operation) == Includes(upperSql, operation)

\* new RegExp(`\\b${operation}\\b`, 'i').test(upperSql)
ProhibitedIn(upperSql, operation) == WordTest(upperSql, operation)

\* a parenthesis check that only looks for parentheses left open
UnbalancedOpenOnly(normalizedSql) ==
    CountChar(normalizedSql, "(") > CountChar(normalizedSql, ")")

\* openParens !== closeParens
Unbalanced(normalizedSql) ==
    CountChar(normalizedSql, "(") # CountChar(normalizedSql, ")")

\* a verdict that counts warnings as well
IsValidWithoutWarnings(errors, warnings) == Len(errors) = 0 /\ Len(warnings) = 0

\* isValid: errors.length === 0
IsValidResult(errors, warnings) == Len(errors) = 0

validateSqlSyntax(sql) ==
    LET normalizedSql == CollapseSpaces(Trim(sql))
        upperSql == toUpperCase(normalizedSql)
        Prohibited(n) == ProhibitedIn(upperSql, prohibitedOperations[n])
        prohibited == SelectIndices(Len(prohibitedOperations), Prohibited, 1)
        Typo(n) == /\ Includes(upperSql, RemoveFirstSpace(typoKeywords[n]))
                   /\ ~TypoRegexTest(upperSql, typoKeywords[n])
        typos == SelectIndices(Len(typoKeywords), Typo, 1)
        errors ==
            [n \in 1..Len(prohibited) |->
                <<"Prohibited operation detected", prohibitedOperations[prohibited[n]]>>]
            \o (IF ~StartsWith(upperSql, <<"S", "E", "L", "E", "C", "T">>)
                THEN << <<"Query must start with SELECT keyword">> >> ELSE <<>>)
            \o (IF ~Includes(upperSql, <<" ", "F", "R", "O", "M", " ">>)
                THEN << <<"Query must contain a FROM clause">> >> ELSE <<>>)
            \o (IF Unbalanced(normalizedSql)
                THEN << <<"Unbalanced parentheses detected">> >> ELSE <<>>)
            \o (IF CountChar(normalizedSql, "'") % 2 # 0
                THEN << <<"Unclosed single quotes detected">> >> ELSE <<>>)
            \o (IF CountChar(normalizedSql, "\"") % 2 # 0
                THEN << <<"Unclosed double quotes detected">> >> ELSE <<>>)
            \o (IF CountChar(normalizedSql, ";") > 1
                THEN << <<"Multiple SQL statements detected">> >> ELSE <<>>)
        warnings ==
            (IF /\ ~Includes(upperSql, <<"F", "E", "T", "C", "H">>)
                /\ ~Includes(upperSql, <<"L", "I", "M", "I", "T">>)
                /\ ~Includes(upperSql, <<"T", "O", "P">>)
             THEN << <<"No row limit specified">> >> ELSE <<>>)
            \o [n \in 1..Len(typos) |-> <<"Possible typo in keyword", typoKeywords[typos[n]]>>]
    IN  IF normalizedSql = <<>>
        THEN [isValid |-> FALSE, errors |-> << <<"SQL query is empty">> >>, warnings |-> <<>>]
        ELSE [isValid |-> IsValidResult(errors, warnings),
              errors |-> errors, warnings |-> warnings]

\* validateSql: validateSqlSyntax with the errors joined into one
validateSql(sql) ==
    LET result == validateSqlSyntax(sql)
    IN  [isValid |-> result.isValid, error |-> result.errors]

(***************************************************************************)
(* validateInput (guardrails.service)                                      *)
(***************************************************************************)

\* if (input.length > 500)
InputLimit == 500

forbiddenKeywords ==
    {<<"d", "r", "o", "p">>,
     <<"d", "e", "l", "e", "t", "e">>,
     <<"t", "r", "u", "n", "c", "a", "t", "e">>,
     <<"u", "p", "d", "a", "t", "e">>,
     <<"i", "n", "s", "e", "r", "t">>,
     <<"a", "l", "t", "e", "r">>}

\* lowerInput.includes(` ${kw} `) || lowerInput.startsWith(kw)
ForbiddenIn(lowerInput, kw) ==
    Includes(lowerInput, <<" ">> \o kw \o <<" ">>) \/ StartsWith(lowerInput, kw)

validateInput(text) ==
    IF Len(text) > InputLimit
    THEN [isValid |-> FALSE, error |-> <<"Query too long">>]
    ELSE IF \E kw \in forbiddenKeywords : ForbiddenIn(toLowerCase(text), kw)
         THEN [isValid |-> FALSE, error |-> <<"You can only view the information. Editing or making changes is not permitted.">>]
         ELSE [isValid |-> TRUE, error |-> <<>>]

(***************************************************************************)
(* The SQL generator's answer, and what generateSql makes of it            *)
(***************************************************************************)

\* the character U+0060 (grave accent), named by its code point
Backquote == "U+0060"

\* text.replace(/```sql/g, '').replace(/```/g, '').trim()
StripFences(text) ==
    Trim(RemoveAll(RemoveAll(text, <<Backquote, Backquote, Backquote, "s", "q", "l">>),
                   <<Backquote, Backquote, Backquote>>))

(***************************************************************************)
(* SemanticCacheService: configuration, embeddings, pure helpers           *)
(***************************************************************************)

\* SEMANTIC_CACHE_THRESHOLD, in hundredths (0.96), and SEMANTIC_CACHE_MAX_SIZE
similarityThreshold == 96

maxCacheSize == 2

\* the server processes that share cache.json, and the requests they handle
\* at a time
Procs == {"A", "B"}

Requests == {<<"A", "r1">>, <<"B", "r1">>}

\* every request a process may be handling, a second one of process A included
Slots == Requests \cup {<<"A", "r2">>}

ProcOf(r) == r[1]

\* the questions asked; q1 is a question an earlier run was asked
Questions == {"q2", "q3"}

\* the questions the clients of process p ask when two processes run
QuestionsOf(p) == IF p = "A" THEN {"q2"} ELSE {"q3"}

\* embeddingModel.embedContent(text) when it answers: q1 and q2 are as similar
\* as the threshold asks (24/25), q3 is unlike both (15/25 and 20/25)
EmbeddingOf(question) ==
    CASE question = "q1" -> <<3, 4>>
      [] question = "q2" -> <<4, 3>>
      [] question = "q3" -> <<5, 0>>
      [] OTHER -> <<0, 5>>

\* Math.sqrt on the squared norms that occur (all of them squares)
Sqrt(n) == CHOOSE r \in 0..n : r * r = n

RECURSIVE SumTo(_, _)
SumTo(f, n) == IF n = 0 THEN 0 ELSE f[n] + SumTo(f, n - 1)

\* cosineSimilarity, in hundredths
cosineSimilarity(vecA, vecB) ==
    LET dotProduct == SumTo([i \in 1..Len(vecA) |-> vecA[i] * vecB[i]], Len(vecA))
        normA == SumTo([i \in 1..Len(vecA) |-> vecA[i] * vecA[i]], Len(vecA))
        normB == SumTo([i \in 1..Len(vecA) |-> vecB[i] * vecB[i]], Len(vecA))
    IN  IF normA = 0 \/ normB = 0 THEN 0
        ELSE (dotProduct * 100) \div (Sqrt(normA) * Sqrt(normB))

\* what a call hands back: a SQL text, null, nothing, a message or a thrown error
Sql(text) == [kind |-> "sql", text |-> text]

Null == [kind |-> "null", text |-> <<>>]

Void == [kind |-> "void", text |-> <<>>]

Message(m) == [kind |-> "message", text |-> <<m>>]

Thrown(m) == [kind |-> "error", text |-> <<m>>]

\* getEmbedding: the provider's answer, or its error thrown on
getEmbedding(text, providerOk) ==
    IF providerOk THEN [threw |-> FALSE, values |-> EmbeddingOf(text)]
    ELSE [threw |-> TRUE, values |-> <<>>]

\* findSimilar's test  if (similarity > maxSimilarity)
IsBetter(similarity, maxSimilarity) == similarity > maxSimilarity

\* findSimilar's loop over this.cache from entry i on; bestMatch is the index
\* of the best entry so far, 0 for null
RECURSIVE ScanCache(_, _, _, _, _)
ScanCache(entries, embedding, i, maxSimilarity, bestMatch) ==
    IF i > Len(entries) THEN [maxSimilarity |-> maxSimilarity, bestMatch |-> bestMatch]
    ELSE LET similarity == cosineSimilarity(embedding, entries[i].embedding)
         IN  IF IsBetter(similarity, maxSimilarity)
             THEN ScanCache(entries, embedding, i + 1, similarity, i)
             ELSE ScanCache(entries, embedding, i + 1, maxSimilarity, bestMatch)

\* a threshold test that leaves the boundary out
IsHitAbove(maxSimilarity, bestMatch) ==
    maxSimilarity > similarityThreshold /\ bestMatch # 0

\* findSimilar's test  if (maxSimilarity >= this.similarityThreshold && bestMatch)
IsHit(maxSimilarity, bestMatch) == maxSimilarity >= similarityThreshold /\ bestMatch # 0

\* a catch block that throws the error on
findSimilarRethrow(error) == Thrown("Error in findSimilar")

\* findSimilar's catch block: whatever was thrown, null is returned
findSimilarCatch(error) == Null

\* findSimilar from the point where getEmbedding has settled
findSimilarScan(entries, question, providerOk) ==
    LET got == getEmbedding(question, providerOk)
    IN  IF got.threw THEN findSimilarCatch(got)
        ELSE LET best == ScanCache(entries, got.values, 1, -100, 0)
             IN  IF IsHit(best.maxSimilarity, best.bestMatch)
                 THEN Sql(entries[best.bestMatch].sql)
                 ELSE Null

\* this.cache.sort((a, b) => a.timestamp - b.timestamp): a stable sort
RECURSIVE InsertByTimestamp(_, _)
InsertByTimestamp(sorted, entry) ==
    IF sorted = <<>> THEN <<entry>>
    ELSE IF sorted[Len(sorted)].timestamp <= entry.timestamp THEN Append(sorted, entry)
    ELSE Append(InsertByTimestamp(SubSeq(sorted, 1, Len(sorted) - 1), entry), sorted[Len(sorted)])

RECURSIVE SortByTimestamp(_)
SortByTimestamp(entries) ==
    IF entries = <<>> THEN <<>>
    ELSE InsertByTimestamp(SortByTimestamp(SubSeq(entries, 1, Len(entries) - 1)),
                           entries[Len(entries)])

\* pop() in the place of shift(): the newest entry goes
EnforceMaxSizePop(entries) ==
    IF Len(entries) > maxCacheSize
    THEN SubSeq(SortByTimestamp(entries), 1, Len(entries) - 1)
    ELSE entries

\* cacheResult's  if (this.cache.length > this.maxCacheSize) { sort; shift }
EnforceMaxSize(entries) ==
    IF Len(entries) > maxCacheSize THEN Tail(SortByTimestamp(entries)) ELSE entries

\* cacheResult's push and eviction, once the embedding is there
\* a push that replaces the entry of the same question
PushEntryDedup(entries, question, embedding, sql, timestamp) ==
    EnforceMaxSize(Append(SelectSeq(entries, LAMBDA e : e.question # question),
        [question |-> question, embedding |-> embedding, sql |-> sql,
         timestamp |-> timestamp]))

PushEntry(entries, question, embedding, sql, timestamp) ==
    EnforceMaxSize(Append(entries,
        [question |-> question, embedding |-> embedding, sql |-> sql,
         timestamp |-> timestamp]))

(***************************************************************************)
(* generateSql (llm.service): the part between the generator's answer and  *)
(* the call of cacheResult                                                 *)
(***************************************************************************)

\* const apiKey = process.env.GEMINI_API_KEY is configured
apiKeyConfigured == TRUE

\* response.text() as the generator may give it: fenced and in the wrong case,
\* already well formed, or a statement the guardrails must stop
FencedSelect ==
    <<Backquote, Backquote, Backquote, "s", "q", "l", "\n",
      "s", "e", "l", "e", "c", "t", " ", "I", "d", " ", "f", "r", "o", "m", " ", "T", "\n",
      Backquote, Backquote, Backquote>>

PlainSelect == <<"S", "E", "L", "E", "C", "T", " ", "n", " ", "F", "R", "O", "M", " ", "u">>

DeleteStatement == <<"d", "e", "l", "e", "t", "e", " ", "f", "r", "o", "m", " ", "T">>

RawOutputs == {FencedSelect, DeleteStatement}

\* text = text.replace(...).trim(); text = formatSqlCasing(text)
generatedText(raw) == formatSqlCasing(StripFences(raw))

\* a try block that only logs what validateSqlSyntax found
generateSqlTryLenient(raw) ==
    [text |-> generatedText(raw), threw |-> FALSE, error |-> <<>>]

\* the try block from the generator's answer to the call of cacheResult:
\* the text, and whether  throw new Error(`Generated SQL is invalid: ...`)  ran
generateSqlTry(raw) ==
    LET text == generatedText(raw)
        validation == validateSqlSyntax(text)
    IN  [text |-> text,
         threw |-> ~validation.isValid,
         error |-> <<"Generated SQL is invalid">> \o validation.errors]

\* the catch block: throw new Error('Failed to generate SQL from LLM.')
generateSqlCatch(error) == Thrown("Failed to generate SQL from LLM.")

\* generateSqlTry of every answer the generator may give, worked out once
TriedOutputs == [raw \in RawOutputs |-> generateSqlTry(raw)]

(***************************************************************************)
(* State                                                                   *)
(***************************************************************************)

VARIABLES
    file,          \* cache.json: whether it exists, the entries it is the JSON of, its mtime
    cache,         \* cache[p]: this.cache of process p
    lastModified,  \* lastModified[p]: this.lastModified of process p
    tasks,         \* tasks[r]: the call of generateSql that request r is in
    last,          \* the call that returned last: what it returned and logged
    now,           \* Date.now()
    calls,         \* the calls started so far
    unread,        \* history: the processes that have not read the file since it was last written
    unsaved,       \* history: the processes whose store holds a change that a write failed to save
    cleared,       \* history: the entries removed by a clearCache that was written while no
                   \* cacheResult was in flight, and not inserted again since
    fileKind,      \* what the text of cache.json is: "array", "object", "null" or "text"
    shape,         \* shape[p]: what this.cache of process p is: "array", "object" or "null"
    input,         \* the text a guardrail or the formatter is given
    applied,       \* the function applied to input last, and its result
    http,          \* the request the router handled last, and the answer of its middleware
    executed,      \* history: the SQL texts that executeSql was called with
    status,        \* ChatInterface: the state status
    currentChatId, \* ChatInterface: the state currentChatId
    currentMessages, \* ChatInterface: the state currentMessages, the messages displayed
    storage,       \* localStorage['nlp2sql_chats']: the chats, each with its messages
    submit,        \* the handleSubmit that is running: where it stands, what it captured
    asked,         \* history: asked[n] is the chat in which question n was submitted
    created        \* the chats that createNewChat has made so far

\* the variables of the guardrails and the formatter, and those of the router
textVars == <<input, applied>>
cacheVars == <<file, cache, lastModified, tasks, last, now, calls, unread, unsaved, cleared,
               fileKind, shape>>

httpVars == <<http, executed>>

\* the variables of the chat client
clientVars == <<status, currentChatId, currentMessages, storage, submit, asked, created>>

vars ==
    <<file, cache, lastModified, tasks, last, now, calls, unread, unsaved, cleared,
      fileKind, shape, input, applied, http, executed,
      status, currentChatId, currentMessages, storage, submit, asked, created>>

\* the calls of one run, the clock's last value, the longest file found at start
MaxCalls == 2

MaxNow == 2

MaxSeedLen == 3

Entry(question, sql, timestamp) ==
    [question |-> question, embedding |-> EmbeddingOf(question), sql |-> sql,
     timestamp |-> timestamp]

DigitOf(n) == <<"1", "2", "3", "4", "5", "6", "7", "8", "9">>[n]

\* the n-th entry that an earlier run, or a process configured with a larger
\* SEMANTIC_CACHE_MAX_SIZE, left in the file: "SELECT n" for question q1, in
\* an order that is not that of the timestamps
SeedEntry(n) ==
    Entry("q1", <<"S", "E", "L", "E", "C", "T", " ", DigitOf(n)>>, n % 2)

AbsentFile == [exists |-> FALSE, content |-> <<>>, mtime |-> 0]

InitialFiles ==
    {AbsentFile} \cup
    {[exists |-> TRUE, content |-> [n \in 1..len |-> SeedEntry(n)], mtime |-> 1] :
        len \in 0..MaxSeedLen}

\* a request that is in no call
IdleTask ==
    [pc |-> "idle", question |-> "", cachedSql |-> Null, raw |-> <<>>, sql |-> <<>>,
     log |-> <<>>, rivals |-> <<>>]

NoCall == [request |-> <<>>, op |-> "none", task |-> IdleTask, ret |-> Void]

\* initialize(): the store a process is constructed with; readOk is whether
\* readFileSync, JSON.parse and statSync all succeed
initialize(f, readOk) ==
    IF f.exists /\ readOk THEN [cache |-> f.content, lastModified |-> f.mtime]
    ELSE [cache |-> <<>>, lastModified |-> 0]

\* no function applied, no request handled
NoApplication == [fn |-> "none", result |-> <<>>]

NoExchange == [route |-> "none", body |-> [has |-> FALSE, value |-> <<>>], status |-> 0]

\* the chats and the questions of one run of the chat client
MaxChats == 2

MaxSubmits == 2

\* currentChatId === null
NoChat == 0

\* no handleSubmit is running
NoSubmit == [pc |-> "none", chatId |-> NoChat, newMessages |-> <<>>, question |-> 0,
             insightsEnabled |-> FALSE]

\* chatStorage.createNewChat(): a chat with an id not used before and no
\* messages; the n-th chat made has the id n
createNewChat(n) == [id |-> n, messages |-> <<>>]

\* chatStorage.getChat(id): the place of the chat in the stored list, 0 for null
getChat(chats, id) ==
    IF \E i \in 1..Len(chats) : chats[i].id = id
    THEN CHOOSE i \in 1..Len(chats) : chats[i].id = id
    ELSE 0

\* chatStorage.saveChat(chat): replaced in its place, or put in front
saveChat(chats, chat) ==
    IF getChat(chats, chat.id) > 0 THEN [chats EXCEPT ![getChat(chats, chat.id)] = chat]
    ELSE <<chat>> \o chats

\* chatStorage.deleteChat(id)
deleteChat(chats, id) == SelectSeq(chats, LAMBDA c : c.id # id)

\* the component after its mount effect ran on an empty localStorage: one new
\* chat, saved and selected
Mounted ==
    /\ status = "idle"
    /\ storage = saveChat(<<>>, createNewChat(1))
    /\ currentChatId = createNewChat(1).id
    /\ currentMessages = <<>>
    /\ submit = NoSubmit
    /\ asked = <<>>
    /\ created = 1

\* no call made, no request handled
NothingRun ==
    /\ Mounted
    /\ tasks = [r \in Slots |-> IdleTask]
    /\ last = NoCall
    /\ now = 1
    /\ calls = 0
    /\ unread = {}
    /\ unsaved = {}
    /\ cleared = {}
    /\ http = NoExchange
    /\ executed = {}

\* nothing has run yet
Untouched ==
    /\ NothingRun
    /\ input = <<>>
    /\ applied = NoApplication

InitWith(f) ==
    /\ file = f
    /\ fileKind = "array"
    /\ cache = [p \in Procs |-> initialize(f, TRUE).cache]
    /\ lastModified = [p \in Procs |-> initialize(f, TRUE).lastModified]
    /\ shape = [p \in Procs |-> "array"]
    /\ Untouched

Init == \E f \in InitialFiles : InitWith(f)

(***************************************************************************)
(* SemanticCacheService: the methods                                       *)
(***************************************************************************)

\* a reload that records the mtime and forgets to assign this.cache
reloadKeepsCache(p, readOk) ==
    IF file.exists /\ file.mtime > lastModified[p]
    THEN IF readOk
         THEN [cache |-> cache[p], lastModified |-> file.mtime, read |-> TRUE,
               log |-> <<"Cache file modified externally, reloading...">>]
         ELSE [cache |-> cache[p], lastModified |-> lastModified[p], read |-> FALSE,
               log |-> <<"Failed to reload cache">>]
    ELSE [cache |-> cache[p], lastModified |-> lastModified[p], read |-> FALSE, log |-> <<>>]

\* a reload that keeps the entries of the store that the file does not hold
reloadMerging(p, readOk) ==
    IF file.exists /\ file.mtime > lastModified[p]
    THEN IF readOk
         THEN [cache |-> file.content
                           \o SelectSeq(cache[p], LAMBDA e : e \notin Range(file.content)),
               lastModified |-> file.mtime, read |-> TRUE,
               log |-> <<"Cache file modified externally, reloading...">>]
         ELSE [cache |-> cache[p], lastModified |-> lastModified[p], read |-> FALSE,
               log |-> <<"Failed to reload cache">>]
    ELSE [cache |-> cache[p], lastModified |-> lastModified[p], read |-> FALSE, log |-> <<>>]

\* a reload that does not compare the modification times
reloadAlways(p, readOk) ==
    IF file.exists
    THEN IF readOk
         THEN [cache |-> file.content, lastModified |-> file.mtime, read |-> TRUE,
               log |-> <<"Cache file modified externally, reloading...">>]
         ELSE [cache |-> cache[p], lastModified |-> lastModified[p], read |-> FALSE,
               log |-> <<"Failed to reload cache">>]
    ELSE [cache |-> cache[p], lastModified |-> lastModified[p], read |-> FALSE, log |-> <<>>]

\* reloadIfModified(): the store and lastModified it leaves; an error of the
\* read or the parse is caught and changes nothing
reloadIfModified(p, readOk) ==
    IF file.exists /\ file.mtime > lastModified[p]
    THEN IF readOk
         THEN [cache |-> file.content, lastModified |-> file.mtime, read |-> TRUE,
               log |-> <<"Cache file modified externally, reloading...">>]
         ELSE [cache |-> cache[p], lastModified |-> lastModified[p], read |-> FALSE,
               log |-> <<"Failed to reload cache">>]
    ELSE [cache |-> cache[p], lastModified |-> lastModified[p], read |-> FALSE, log |-> <<>>]

\* reloadIfModified() on whatever the file holds: JSON.parse throws on text
\* that is no JSON and nothing is assigned; an object is assigned as it is;
\* null is assigned, then  this.cache.length  throws and the catch block
\* leaves it there
reloadFrom(p, readOk) ==
    IF fileKind = "array"
    THEN LET reloaded == reloadIfModified(p, readOk)
         IN  [cache |-> reloaded.cache, lastModified |-> reloaded.lastModified,
              read |-> reloaded.read, log |-> reloaded.log,
              shape |-> IF reloaded.read THEN "array" ELSE shape[p]]
    ELSE IF file.exists /\ file.mtime > lastModified[p] /\ readOk /\ fileKind # "text"
         THEN [cache |-> <<>>, lastModified |-> file.mtime, read |-> TRUE,
               log |-> IF fileKind = "null" THEN <<"Failed to reload cache">>
                       ELSE <<"Cache file modified externally, reloading...">>,
               shape |-> fileKind]
         ELSE [cache |-> cache[p], lastModified |-> lastModified[p], read |-> FALSE,
               log |-> IF file.exists /\ file.mtime > lastModified[p]
                       THEN <<"Failed to reload cache">> ELSE <<>>,
               shape |-> shape[p]]

\* appendFileSync in the place of writeFileSync
saveCacheAppend(entries, writeOk) ==
    IF writeOk
    THEN [exists |-> TRUE, content |-> file.content \o entries, mtime |-> file.mtime + 1]
    ELSE file

\* a saveCache that writes the newest entry alone
saveCacheNewestOnly(entries, writeOk) ==
    IF writeOk
    THEN [exists |-> TRUE,
          content |-> IF entries = <<>> THEN <<>> ELSE <<entries[Len(entries)]>>,
          mtime |-> file.mtime + 1]
    ELSE file

\* saveCache(): the file after writeFileSync(JSON.stringify(this.cache)); a
\* failed write is caught and leaves the file as it was
saveCache(entries, writeOk) ==
    IF writeOk THEN [exists |-> TRUE, content |-> entries, mtime |-> file.mtime + 1]
    ELSE file

\* what saveCache logs
saveLog(writeOk) == IF writeOk THEN <<>> ELSE <<"Failed to save semantic cache">>

\* what cacheResult logs when the push takes the store over maxCacheSize
fullLog(entries) ==
    IF Len(entries) + 1 > maxCacheSize THEN <<"Cache full, removed oldest entry">> ELSE <<>>

\* a cacheResult that pushes the entry before the embedding has settled
cacheResultPushFirst(p, question, sql, providerOk, writeOk) ==
    LET got == getEmbedding(question, providerOk)
        entries == PushEntry(cache[p], question, got.values, sql, now)
    IN  [cache |-> entries, file |-> saveCache(entries, writeOk), threw |-> FALSE,
         pushed |-> TRUE,
         log |-> IF got.threw THEN <<"Error caching result">>
                 ELSE fullLog(cache[p]) \o saveLog(writeOk) \o <<"Cached new result">>]

\* a cacheResult without its try block: the provider's error leaves it
cacheResultRethrow(p, question, sql, providerOk, writeOk) ==
    LET got == getEmbedding(question, providerOk)
        entries == PushEntry(cache[p], question, got.values, sql, now)
    IN  IF got.threw
        THEN [cache |-> cache[p], file |-> file, threw |-> TRUE, pushed |-> FALSE,
              log |-> <<"Error generating embedding">>]
        ELSE [cache |-> entries, file |-> saveCache(entries, writeOk), threw |-> FALSE,
              pushed |-> TRUE,
              log |-> fullLog(cache[p]) \o saveLog(writeOk) \o <<"Cached new result">>]

\* cacheResult(question, sql) from the point where getEmbedding has settled:
\* the store and the file it leaves, what it logs, whether it throws
cacheResult(p, question, sql, providerOk, writeOk) ==
    LET got == getEmbedding(question, providerOk)
        entries == PushEntry(cache[p], question, got.values, sql, now)
    IN  IF got.threw
        THEN [cache |-> cache[p], file |-> file, threw |-> FALSE, pushed |-> FALSE,
              log |-> <<"Error caching result">>]
        ELSE [cache |-> entries, file |-> saveCache(entries, writeOk), threw |-> FALSE,
              pushed |-> TRUE,
              log |-> fullLog(cache[p]) \o saveLog(writeOk) \o <<"Cached new result">>]

\* clearCache(): this.cache = []; this.saveCache()
clearCache(p, writeOk) ==
    [cache |-> <<>>, file |-> saveCache(<<>>, writeOk),
     log |-> saveLog(writeOk) \o <<"Semantic Cache cleared manually.">>,
     ret |-> Message("Cache cleared successfully")]

(***************************************************************************)
(* Steps: a call runs from one await to the next                           *)
(***************************************************************************)

\* the call of request r goes on as task
Continue(r, task) ==
    /\ tasks' = [tasks EXCEPT ![r] = task]
    /\ UNCHANGED last

\* the call of request r returns (or throws) ret
Finish(r, op, task, ret) ==
    /\ tasks' = [tasks EXCEPT ![r] = IdleTask]
    /\ last' = [request |-> r, op |-> op, task |-> task, ret |-> ret]

\* the call of request r returns from cacheResult; the requests of the same
\* process that stand suspended in cacheResult note, in rivals, the entries
\* that this call pushed and wrote while they were suspended
FinishSaving(r, task, ret, saved) ==
    /\ tasks' = [s \in Slots |->
                    IF s = r THEN IdleTask
                    ELSE IF ProcOf(s) = ProcOf(r) /\ tasks[s].pc = "cacheResult"
                         THEN [tasks[s] EXCEPT !.rivals = @ \o saved]
                         ELSE tasks[s]]
    /\ last' = [request |-> r, op |-> "generateSql", task |-> task, ret |-> ret]

\* the history after process p ran a method that left the file as f and may
\* have changed its store
Written(p, f) ==
    /\ unread' = IF f # file THEN Procs ELSE unread
    /\ unsaved' = IF f # file THEN unsaved \ {p} ELSE unsaved \cup {p}

\* generateSql(question) up to its first await: the key check, then
\* findSimilar runs reloadIfModified() and calls getEmbedding
StartGenerateSql(limit, r, question, readOk) ==
    LET p == ProcOf(r)
        reloaded == reloadFrom(p, readOk)
    IN  /\ tasks[r].pc = "idle"
        /\ calls < limit
        /\ calls' = calls + 1
        /\ apiKeyConfigured
        /\ cache' = [cache EXCEPT ![p] = reloaded.cache]
        /\ lastModified' = [lastModified EXCEPT ![p] = reloaded.lastModified]
        /\ shape' = [shape EXCEPT ![p] = reloaded.shape]
        /\ Continue(r, [IdleTask EXCEPT !.pc = "findSimilar", !.question = question,
                                        !.log = reloaded.log])
        /\ unread' = IF reloaded.read THEN unread \ {p} ELSE unread
        /\ unsaved' = IF reloaded.read THEN unsaved \ {p} ELSE unsaved
        /\ UNCHANGED <<file, fileKind, now, cleared>>

\* generateSql called by one of a process's requests
CallGenerateSqlWithin(limit, r, question, readOk) ==
    /\ StartGenerateSql(limit, r, question, readOk)
    /\ UNCHANGED <<textVars, httpVars, clientVars>>

CallGenerateSql(r, question, readOk) == CallGenerateSqlWithin(MaxCalls, r, question, readOk)

\* a generateSql that does not look at what findSimilar returned
NoEarlyReturn(found) == FALSE

\* if (cachedSql)
Truthy(found) == found.kind = "sql" /\ found.text # <<>>

\* getEmbedding settles in findSimilar: the scan, the return of findSimilar,
\* and generateSql returns the hit or asks the generator (an error thrown by
\* findSimilar would leave generateSql, the call stands before the try block)
FindSimilarResumes(r, providerOk) ==
    LET task == tasks[r]
        iterable == shape[ProcOf(r)] = "array"
        found == IF iterable THEN findSimilarScan(cache[ProcOf(r)], task.question, providerOk)
                 ELSE findSimilarCatch(<<"TypeError">>)
        line == IF ~providerOk \/ ~iterable THEN "Error in findSimilar"
                ELSE IF found.kind = "sql" THEN "Cache HIT!" ELSE "Cache MISS"
        after == [task EXCEPT !.cachedSql = found, !.log = Append(task.log, line)]
    IN  /\ task.pc = "findSimilar"
        /\ IF Truthy(found) \/ found.kind = "error"
           THEN Finish(r, "generateSql", after, found)
           ELSE Continue(r, [after EXCEPT !.pc = "generateContent"])
        /\ UNCHANGED <<file, cache, lastModified, now, calls, unread, unsaved, cleared>>
        /\ UNCHANGED <<fileKind, shape, textVars, httpVars, clientVars>>

\* model.generateContent settles with the text raw: strip, format, validate,
\* then cacheResult is called (up to its await) or the error is thrown on
GeneratorAnswers(r, raw) ==
    LET task == tasks[r]
        tried == TriedOutputs[raw]
        after == [task EXCEPT !.raw = raw, !.sql = tried.text]
    IN  /\ task.pc = "generateContent"
        /\ IF tried.threw
           THEN Finish(r, "generateSql",
                       [after EXCEPT !.log = task.log \o <<"Generated SQL failed validation",
                                                           "Error calling Gemini">>],
                       generateSqlCatch(tried.error))
           ELSE Continue(r, [after EXCEPT !.pc = "cacheResult"])
        /\ UNCHANGED <<file, cache, lastModified, now, calls, unread, unsaved, cleared>>
        /\ UNCHANGED <<fileKind, shape, textVars, httpVars, clientVars>>

\* model.generateContent rejects: the catch block throws on
GeneratorFails(r) ==
    LET task == tasks[r]
    IN  /\ task.pc = "generateContent"
        /\ Finish(r, "generateSql", [task EXCEPT !.log = Append(task.log, "Error calling Gemini")],
                  generateSqlCatch(<<"generateContent">>))
        /\ UNCHANGED <<file, cache, lastModified, now, calls, unread, unsaved, cleared>>
        /\ UNCHANGED <<fileKind, shape, textVars, httpVars, clientVars>>

\* cacheResult on a store that is no array: this.cache.push is no function (or
\* this.cache is null), the TypeError is caught by cacheResult's catch block
pushThrows(p) ==
    [cache |-> cache[p], file |-> file, threw |-> FALSE, pushed |-> FALSE,
     log |-> <<"Error caching result">>]

\* getEmbedding settles in cacheResult, cacheResult runs to its end and
\* generateSql returns text (an error thrown by cacheResult would be caught by
\* generateSql's catch block)
CacheResultResumes(r, providerOk, writeOk) ==
    LET task == tasks[r]
        p == ProcOf(r)
        done == IF shape[p] = "array"
                THEN cacheResult(p, task.question, task.sql, providerOk, writeOk)
                ELSE pushThrows(p)
    IN  /\ task.pc = "cacheResult"
        /\ cache' = [cache EXCEPT ![p] = done.cache]
        /\ file' = done.file
        /\ fileKind' = IF done.file # file THEN "array" ELSE fileKind
        /\ FinishSaving(r, [task EXCEPT !.log = task.log \o done.log],
                        IF done.threw THEN generateSqlCatch(done.log) ELSE Sql(task.sql),
                        IF done.pushed /\ writeOk THEN <<done.cache[Len(done.cache)]>>
                        ELSE <<>>)
        /\ IF done.pushed
           THEN /\ Written(p, done.file)
                /\ cleared' = cleared \ {done.cache[Len(done.cache)]}
           ELSE UNCHANGED <<unread, unsaved, cleared>>
        /\ UNCHANGED <<lastModified, now, calls, shape, textVars, httpVars, clientVars>>

\* DELETE /cache: clearCache()
ClearCacheWithin(limit, r, writeOk) ==
    LET p == ProcOf(r)
        done == clearCache(p, writeOk)
    IN  /\ tasks[r].pc = "idle"
        /\ calls < limit
        /\ calls' = calls + 1
        /\ cache' = [cache EXCEPT ![p] = done.cache]
        /\ file' = done.file
        /\ fileKind' = IF done.file # file THEN "array" ELSE fileKind
        /\ shape' = [shape EXCEPT ![p] = "array"]
        /\ Finish(r, "clearCache", [IdleTask EXCEPT !.log = done.log], done.ret)
        /\ Written(p, done.file)
        /\ cleared' = IF writeOk /\ \A other \in Slots : tasks[other].pc # "cacheResult"
                      THEN cleared \cup Range(cache[p]) \cup Range(file.content)
                      ELSE cleared
        /\ UNCHANGED <<lastModified, now, textVars, httpVars, clientVars>>

ClearCache(r, writeOk) == ClearCacheWithin(MaxCalls, r, writeOk)

\* time passes; Date.now() is read by cacheResult alone, so the clock is
\* moved only while a call stands before that read
Tick ==
    /\ now < MaxNow
    /\ \E r \in Slots : tasks[r].pc = "cacheResult"
    /\ now' = now + 1
    /\ UNCHANGED <<file, cache, lastModified, tasks, last, calls, unread, unsaved, cleared>>
    /\ UNCHANGED <<fileKind, shape, textVars, httpVars, clientVars>>

Next ==
    \/ \E r \in Requests : \E q \in QuestionsOf(ProcOf(r)), readOk \in BOOLEAN :
          CallGenerateSql(r, q, readOk)
    \/ \E r \in Requests, providerOk \in BOOLEAN : FindSimilarResumes(r, providerOk)
    \/ \E r \in Requests, raw \in RawOutputs : GeneratorAnswers(r, raw)
    \/ \E r \in Requests : GeneratorFails(r)
    \/ \E r \in Requests, providerOk \in BOOLEAN, writeOk \in BOOLEAN :
          CacheResultResumes(r, providerOk, writeOk)
    \/ \E r \in Requests, writeOk \in BOOLEAN : ClearCache(r, writeOk)
    \/ Tick

Spec == Init /\ [][Next]_vars

(***************************************************************************)
(* One process, started on an empty store, whose writes succeed            *)
(***************************************************************************)

\* the calls of one run of the single process
MaxCallsSingle == 4

SingleRequests == {r \in Requests : ProcOf(r) = "A"}

InitSingle == InitWith(AbsentFile) \/ InitWith([exists |-> TRUE, content |-> <<>>, mtime |-> 1])

NextSingle ==
    \/ \E r \in SingleRequests, q \in Questions, readOk \in BOOLEAN :
          CallGenerateSqlWithin(MaxCallsSingle, r, q, readOk)
    \/ \E r \in SingleRequests, providerOk \in BOOLEAN : FindSimilarResumes(r, providerOk)
    \/ \E r \in SingleRequests, raw \in RawOutputs : GeneratorAnswers(r, raw)
    \/ \E r \in SingleRequests : GeneratorFails(r)
    \/ \E r \in SingleRequests, providerOk \in BOOLEAN : CacheResultResumes(r, providerOk, TRUE)
    \/ Tick

SpecSingle == InitSingle /\ [][NextSingle]_vars

(***************************************************************************)
(* One process that handles two requests at a time                         *)
(***************************************************************************)

\* the calls of one run of the process with two requests
MaxCallsShared == 3

SharedRequests == {r \in Slots : ProcOf(r) = "A"}

InitShared == InitWith(AbsentFile)

NextShared ==
    \/ \E r \in SharedRequests, q \in Questions, readOk \in BOOLEAN :
          CallGenerateSqlWithin(MaxCallsShared, r, q, readOk)
    \/ \E r \in SharedRequests, providerOk \in BOOLEAN : FindSimilarResumes(r, providerOk)
    \/ \E r \in SharedRequests, raw \in RawOutputs : GeneratorAnswers(r, raw)
    \/ \E r \in SharedRequests : GeneratorFails(r)
    \/ \E r \in SharedRequests, providerOk \in BOOLEAN, writeOk \in BOOLEAN :
          CacheResultResumes(r, providerOk, writeOk)
    \/ \E r \in SharedRequests, writeOk \in BOOLEAN :
          ClearCacheWithin(MaxCallsShared, r, writeOk)
    \/ Tick

SpecShared == InitShared /\ [][NextShared]_vars

(***************************************************************************)
(* One process whose two requests insert at the same time                  *)
(***************************************************************************)

\* the calls of one run of the process with two inserting requests
MaxCallsRace == 2

RaceRequests == {r \in Slots : ProcOf(r) = "A"}

\* a file that holds as many entries as a store may hold
FullFile ==
    [exists |-> TRUE, content |-> [n \in 1..maxCacheSize |-> SeedEntry(n)], mtime |-> 1]

InitRace == \E f \in {AbsentFile, FullFile} : InitWith(f)

NextRace ==
    \/ \E r \in RaceRequests, q \in Questions, readOk \in BOOLEAN :
          CallGenerateSqlWithin(MaxCallsRace, r, q, readOk)
    \/ \E r \in RaceRequests, providerOk \in BOOLEAN : FindSimilarResumes(r, providerOk)
    \/ \E r \in RaceRequests, raw \in RawOutputs : GeneratorAnswers(r, raw)
    \/ \E r \in RaceRequests : GeneratorFails(r)
    \/ \E r \in RaceRequests, providerOk \in BOOLEAN, writeOk \in BOOLEAN :
          CacheResultResumes(r, providerOk, writeOk)
    \/ Tick

SpecRace == InitRace /\ [][NextRace]_vars

(***************************************************************************)
(* Two processes, started without a file, that insert and look up          *)
(***************************************************************************)

\* the calls of one run of the two processes
MaxCallsRacing == 3

InitRacing == InitWith(AbsentFile)

NextRacing ==
    \/ \E r \in Requests : \E q \in QuestionsOf(ProcOf(r)), readOk \in BOOLEAN :
          CallGenerateSqlWithin(MaxCallsRacing, r, q, readOk)
    \/ \E r \in Requests, providerOk \in BOOLEAN : FindSimilarResumes(r, providerOk)
    \/ \E r \in Requests, raw \in RawOutputs : GeneratorAnswers(r, raw)
    \/ \E r \in Requests : GeneratorFails(r)
    \/ \E r \in Requests, providerOk \in BOOLEAN, writeOk \in BOOLEAN :
          CacheResultResumes(r, providerOk, writeOk)
    \/ Tick

SpecRacing == InitRacing /\ [][NextRacing]_vars

(***************************************************************************)
(* The routes POST /generate and POST /execute of one process              *)
(***************************************************************************)

\* the generateSql calls of one run of the process
MaxCallsHttp == 2

HttpRequests == {r \in Requests : ProcOf(r) = "A"}

Repeat(c, n) == Chars([i \in 1..n |-> c], n)

\* the text of a question
TextOf(question) ==
    CASE question = "q1" -> <<"a", "l", "l", " ", "u", "s", "e", "r", "s">>
      [] question = "q2" -> <<"l", "i", "s", "t", " ", "u", "s", "e", "r", "s">>
      [] question = "q3" -> <<"c", "o", "u", "n", "t", " ", "o", "r", "d", "e", "r", "s">>
      [] question = "q4" -> <<"D", "r", "o", "p", " ", "u", "s", "e", "r", "s">>
      [] question = "q5" -> <<"p", "l", "e", "a", "s", "e", " ", "d", "e", "l", "e", "t", "e", " ", "i", "t">>
      [] question = "q6" -> <<"u", "s", "e", "r", "s", " ", "t", "o", " ", "d", "r", "o", "p">>
      [] question = "q7" -> Repeat("a", InputLimit + 1)
      [] OTHER -> <<>>

\* req.body of POST /generate: no question, an empty one, or a question
GenerateBodies ==
    {[has |-> FALSE, value |-> ""]}
       \cup {[has |-> TRUE, value |-> q] : q \in {"", "q2", "q4", "q5", "q7"}}

\* req.body of POST /execute: no sql, an empty one, or a statement
ExecuteBodies ==
    {[has |-> FALSE, value |-> <<>>]}
       \cup {[has |-> TRUE, value |-> sql] : sql \in {<<>>, PlainSelect, DeleteStatement}}

\* if (!question) for every question, validateInput of every question,
\* validateSql of every statement, worked out once
EmptyQuestion == [q \in {b.value : b \in GenerateBodies} |-> TextOf(q) = <<>>]

InputVerdicts == [q \in {b.value : b \in GenerateBodies} |-> validateInput(TextOf(q))]

SqlVerdicts == [sql \in {b.value : b \in ExecuteBodies} |-> validateSql(sql)]

\* what a middleware does: calls next(), or answers with a status and an error
Passed == [next |-> TRUE, status |-> 0, error |-> <<>>]

Answered(code, error) == [next |-> FALSE, status |-> code, error |-> error]

\* a validateQuestion that only looks whether there is a question
validateQuestionPresenceOnly(body) ==
    IF ~body.has \/ EmptyQuestion[body.value]
    THEN Answered(400, <<"Question is required">>)
    ELSE Passed

\* validateQuestion (validation.middleware)
validateQuestion(body) ==
    IF ~body.has \/ EmptyQuestion[body.value]
    THEN Answered(400, <<"Question is required">>)
    ELSE LET validation == InputVerdicts[body.value]
         IN  IF ~validation.isValid THEN Answered(400, validation.error) ELSE Passed

\* a validateGeneratedSql that only looks whether there is a statement
validateGeneratedSqlPresenceOnly(body) ==
    IF ~body.has \/ body.value = <<>>
    THEN Answered(400, <<"SQL query is required">>)
    ELSE Passed

\* validateGeneratedSql (validation.middleware)
validateGeneratedSql(body) ==
    IF ~body.has \/ body.value = <<>>
    THEN Answered(400, <<"SQL query is required">>)
    ELSE LET validation == SqlVerdicts[body.value]
         IN  IF ~validation.isValid THEN Answered(400, validation.error) ELSE Passed

\* router.post('/generate', validateQuestion, generateSql): the middleware
\* answers, or the controller calls generateSql(question), which runs up to
\* its first await; http holds what the middleware did (status 0: it called
\* next()), and the controller's answer is what generateSql returns or throws
PostGenerate(r, body, readOk) ==
    LET checked == validateQuestion(body)
    IN  IF checked.next
        THEN /\ StartGenerateSql(MaxCallsHttp, r, body.value, readOk)
             /\ http' = [route |-> "generate", body |-> body, status |-> 0]
             /\ UNCHANGED <<textVars, executed, clientVars>>
        ELSE /\ http' = [route |-> "generate", body |-> body, status |-> checked.status]
             /\ UNCHANGED <<cacheVars, textVars, executed, clientVars>>

\* router.post('/execute', validateGeneratedSql, executeSql): the middleware
\* answers, or the controller calls executeSql(sql), which sends the
\* statement to the external API; the API answers or fails
PostExecute(body, apiOk) ==
    LET checked == validateGeneratedSql(body)
    IN  /\ http' = [route |-> "execute", body |-> body,
                    status |-> IF ~checked.next THEN checked.status
                               ELSE IF apiOk THEN 200 ELSE 500]
        /\ executed' = IF checked.next THEN executed \cup {body.value} ELSE executed
        /\ UNCHANGED <<cacheVars, textVars, clientVars>>

\* the values of process.env.NODE_ENV that errorHandler tells apart
NodeEnvs == {"production", "development"}

\* errorHandler: an Error without a statusCode is answered with status 500;
\* its message is hidden in production
errorHandler(err, nodeEnv) ==
    LET statusCode == 500
    IN  [status |-> statusCode,
         error |-> IF nodeEnv = "production" /\ statusCode = 500
                   THEN <<"Internal Server Error">>
                   ELSE err.text]

\* the controller generateSql after the service returned or threw ret:
\* res.json({ sql }), or next(error) and with it errorHandler
generateSqlResponse(ret, nodeEnv) ==
    IF ret.kind = "sql" THEN [status |-> 200, sql |-> ret.text]
    ELSE errorHandler(ret, nodeEnv)

InitHttp == InitWith(AbsentFile)

NextHttp ==
    \/ \E r \in HttpRequests, body \in GenerateBodies, readOk \in BOOLEAN :
          PostGenerate(r, body, readOk)
    \/ \E r \in HttpRequests, providerOk \in BOOLEAN : FindSimilarResumes(r, providerOk)
    \/ \E r \in HttpRequests, raw \in RawOutputs : GeneratorAnswers(r, raw)
    \/ \E r \in HttpRequests : GeneratorFails(r)
    \/ \E r \in HttpRequests, providerOk \in BOOLEAN, writeOk \in BOOLEAN :
          CacheResultResumes(r, providerOk, writeOk)
    \/ \E body \in ExecuteBodies, apiOk \in BOOLEAN : PostExecute(body, apiOk)

SpecHttp == InitHttp /\ [][NextHttp]_vars

(***************************************************************************)
(* The guardrails and the formatter on texts of their own                  *)
(***************************************************************************)

\* the pieces a text is put together from, at most
MaxFragments == 2

Fragments ==
    {<<"S", "E", "L", "E", "C", "T", " ", "c", "r", "e", "a", "t", "e", "d", "_", "b", "y", " ", "F", "R", "O", "M", " ", "t">>,
     <<"D", "r", "o", "p">>,
     <<"d", "e", "l", "e", "t", "e">>,
     <<"G", "R", "O", "U", "P", " ", "B", "Y", " ", "a">>,
     <<"(">>,
     <<")">>,
     <<"'", "O", "r">>,
     <<"\"">>,
     <<";">>,
     <<";", " ", "S", "E", "L", "E", "C", "T", " ", "1", ";">>,
     <<"G", "R", "O", "U", "P", "B", "Y">>,
     <<"L", "I", "M", "I", "T", " ", "1">>,
     <<"p", "l", "e", "a", "s", "e">>,
     <<"T", ".", "N", "a", "m", "e">>,
     <<"L", "I", KelvinSign, "E">>,
     <<DottedI, "d">>}

\* the fragments with one space between them
RECURSIVE JoinFragments(_)
JoinFragments(fs) ==
    IF fs = <<>> THEN <<>>
    ELSE IF Len(fs) = 1 THEN fs[1]
    ELSE fs[1] \o <<" ">> \o JoinFragments(Tail(fs))

\* the texts of at most MaxFragments fragments: what the formatter and
\* validateSqlSyntax are given
SqlInputs ==
    {JoinFragments(fs) : fs \in UNION {[1..n -> Fragments] : n \in 0..MaxFragments}}

\* what validateInput is given: the same, a text of exactly InputLimit
\* characters and one a character longer
TextInputs == SqlInputs \cup {Repeat("a", InputLimit), Repeat("a", InputLimit + 1)}

InitText ==
    /\ file = AbsentFile
    /\ fileKind = "array"
    /\ cache = [p \in Procs |-> <<>>]
    /\ lastModified = [p \in Procs |-> 0]
    /\ shape = [p \in Procs |-> "array"]
    /\ NothingRun
    /\ input \in TextInputs
    /\ applied = NoApplication

ApplyValidateSqlSyntax ==
    /\ applied.fn = "none"
    /\ input \in SqlInputs
    /\ applied' = [fn |-> "validateSqlSyntax", result |-> validateSqlSyntax(input)]
    /\ UNCHANGED <<input, cacheVars, httpVars, clientVars>>

ApplyValidateInput ==
    /\ applied.fn = "none"
    /\ applied' = [fn |-> "validateInput", result |-> validateInput(input)]
    /\ UNCHANGED <<input, cacheVars, httpVars, clientVars>>

ApplyFormatSqlCasing ==
    /\ applied.fn = "none"
    /\ input \in SqlInputs
    /\ applied' = [fn |-> "formatSqlCasing", result |-> formatSqlCasing(input)]
    /\ UNCHANGED <<input, cacheVars, httpVars, clientVars>>

NextText ==
    \/ ApplyValidateSqlSyntax
    \/ ApplyValidateInput
    \/ ApplyFormatSqlCasing

SpecText == InitText /\ [][NextText]_vars

(***************************************************************************)
(* Processes started on whatever cache.json holds                          *)
(***************************************************************************)

\* initialize() on whatever the file holds: on text that is no JSON the parse
\* throws before lastModified is set; an object is assigned as it is; null is
\* assigned, lastModified is set, then  this.cache.length  throws and the
\* catch block assigns []
initializeFrom(f, kind, readOk) ==
    IF kind = "array" \/ ~f.exists \/ ~readOk
    THEN [cache |-> initialize(f, readOk).cache,
          lastModified |-> initialize(f, readOk).lastModified, shape |-> "array"]
    ELSE [cache |-> <<>>,
          lastModified |-> IF kind = "text" THEN 0 ELSE f.mtime,
          shape |-> IF kind = "object" THEN "object" ELSE "array"]

\* the file a process may find when it starts: none, an array of entries, or
\* a text that is no array (its content is not entries)
StartFiles ==
    {[file |-> AbsentFile, kind |-> "array"],
     [file |-> [exists |-> TRUE, content |-> <<SeedEntry(1)>>, mtime |-> 1], kind |-> "array"]}
    \cup {[file |-> [exists |-> TRUE, content |-> <<>>, mtime |-> 1], kind |-> kind] :
             kind \in {"text", "object", "null"}}

InitStart ==
    \E start \in StartFiles, readOk \in [Procs -> BOOLEAN] :
        /\ file = start.file
        /\ fileKind = start.kind
        /\ cache = [p \in Procs |-> initializeFrom(start.file, start.kind, readOk[p]).cache]
        /\ lastModified =
              [p \in Procs |-> initializeFrom(start.file, start.kind, readOk[p]).lastModified]
        /\ shape = [p \in Procs |-> initializeFrom(start.file, start.kind, readOk[p]).shape]
        /\ Untouched

SpecStart == InitStart /\ [][Next]_vars

\* a number, and the value of a property that is not there
Number(n) == [defined |-> TRUE, value |-> n]

Undefined == [defined |-> FALSE, value |-> 0]

\* getStats().totalEntries: this.cache.length
getStats(p) ==
    [totalEntries |-> IF shape[p] = "array" THEN Number(Len(cache[p])) ELSE Undefined,
     maxSize |-> maxCacheSize, threshold |-> similarityThreshold]

(***************************************************************************)
(* The chat client: ChatInterface and chatStorage                          *)
(***************************************************************************)

\* saveCurrentChat(messages) of the render in which chatId was current: the
\* chat's messages are replaced if the chat is still stored (its title and
\* updatedAt are left out)
saveCurrentChat(chats, chatId, messages) ==
    IF chatId = NoChat \/ getChat(chats, chatId) = 0 THEN chats
    ELSE saveChat(chats, [chats[getChat(chats, chatId)] EXCEPT !.messages = messages])

\* the messages of question n: the user's, the assistant's reply, the reply
\* with insights, the assistant's report of an error
userMessage(n) == [role |-> "user", question |-> n, content |-> "input"]

assistantMessage(n) == [role |-> "assistant", question |-> n, content |-> "result"]

insightsMessage(n) == [role |-> "assistant", question |-> n, content |-> "insights"]

errorMessage(n) == [role |-> "assistant", question |-> n, content |-> "error"]

\* a handleSubmit that does not look at status
passesGuardAnyStatus == currentChatId # NoChat

\* handleSubmit's guard, for an input that is not blank
passesGuard == status = "idle" /\ currentChatId # NoChat

\* handleSubmit up to  await generateSql(...)
handleSubmit(insightsEnabled) ==
    LET n == Len(asked) + 1
        newMessages == Append(currentMessages, userMessage(n))
    IN  /\ passesGuard
        /\ n <= MaxSubmits
        /\ currentMessages' = newMessages
        /\ storage' = saveCurrentChat(storage, currentChatId, newMessages)
        /\ status' = "generating"
        /\ submit' = [pc |-> "generateSql", chatId |-> currentChatId,
                      newMessages |-> newMessages, question |-> n,
                      insightsEnabled |-> insightsEnabled]
        /\ asked' = Append(asked, currentChatId)
        /\ UNCHANGED <<currentChatId, created, cacheVars, textVars, httpVars>>

\* generateSql settles with the sql: setStatus('executing'), then
\* await executeSql(sql)
GenerateSqlReturns ==
    /\ submit.pc = "generateSql"
    /\ status' = "executing"
    /\ submit' = [submit EXCEPT !.pc = "executeSql"]
    /\ UNCHANGED <<currentChatId, currentMessages, storage, asked, created>>
    /\ UNCHANGED <<cacheVars, textVars, httpVars>>

\* executeSql settles with the result: the reply is displayed and saved
\* through the saveCurrentChat of the submitting render; then the insights are
\* asked for, or the timer that sets status to idle is started
ExecuteSqlReturns(hasData) ==
    LET finalMessages == Append(submit.newMessages, assistantMessage(submit.question))
    IN  /\ submit.pc = "executeSql"
        /\ currentMessages' = finalMessages
        /\ storage' = saveCurrentChat(storage, submit.chatId, finalMessages)
        /\ status' = "complete"
        /\ submit' = [submit EXCEPT
                        !.pc = IF submit.insightsEnabled /\ hasData THEN "generateInsights"
                               ELSE "setTimeout"]
        /\ UNCHANGED <<currentChatId, asked, created, cacheVars, textVars, httpVars>>

\* generateInsights settles: the reply with its insights is displayed and
\* saved, or the failure is logged; then the timer is started
GenerateInsightsSettles(ok) ==
    LET updatedMessages == Append(submit.newMessages, insightsMessage(submit.question))
    IN  /\ submit.pc = "generateInsights"
        /\ currentMessages' = IF ok THEN updatedMessages ELSE currentMessages
        /\ storage' = IF ok THEN saveCurrentChat(storage, submit.chatId, updatedMessages)
                      ELSE storage
        /\ submit' = [submit EXCEPT !.pc = "setTimeout"]
        /\ UNCHANGED <<status, currentChatId, asked, created>>
        /\ UNCHANGED <<cacheVars, textVars, httpVars>>

\* generateSql or executeSql rejects: the catch block
ApiFails ==
    LET finalMessages == Append(submit.newMessages, errorMessage(submit.question))
    IN  /\ submit.pc \in {"generateSql", "executeSql"}
        /\ currentMessages' = finalMessages
        /\ storage' = saveCurrentChat(storage, submit.chatId, finalMessages)
        /\ status' = "error"
        /\ submit' = [submit EXCEPT !.pc = "setTimeout"]
        /\ UNCHANGED <<currentChatId, asked, created, cacheVars, textVars, httpVars>>

\* the timer of setTimeout(() => setStatus('idle'), ...) fires
TimerFires ==
    /\ submit.pc = "setTimeout"
    /\ status' = "idle"
    /\ submit' = NoSubmit
    /\ UNCHANGED <<currentChatId, currentMessages, storage, asked, created>>
    /\ UNCHANGED <<cacheVars, textVars, httpVars>>

\* handleNewChat
handleNewChat ==
    LET newChat == createNewChat(created + 1)
    IN  /\ created < MaxChats
        /\ created' = created + 1
        /\ storage' = saveChat(storage, newChat)
        /\ currentChatId' = newChat.id
        /\ currentMessages' = <<>>
        /\ UNCHANGED <<status, submit, asked, cacheVars, textVars, httpVars>>

\* handleSelectChat(chatId), for a chat of the sidebar
handleSelectChat(chatId) ==
    /\ getChat(storage, chatId) > 0
    /\ currentChatId' = chatId
    /\ currentMessages' = storage[getChat(storage, chatId)].messages
    /\ UNCHANGED <<status, storage, submit, asked, created, cacheVars, textVars, httpVars>>

\* handleDeleteChat(chatId), for a chat of the sidebar
handleDeleteChat(chatId) ==
    LET updatedChats == deleteChat(storage, chatId)
        newChat == createNewChat(created + 1)
    IN  /\ getChat(storage, chatId) > 0
        /\ IF chatId # currentChatId
           THEN /\ storage' = updatedChats
                /\ UNCHANGED <<currentChatId, currentMessages, created>>
           ELSE IF Len(updatedChats) > 0
           THEN /\ storage' = updatedChats
                /\ currentChatId' = updatedChats[1].id
                /\ currentMessages' = updatedChats[1].messages
                /\ UNCHANGED created
           ELSE /\ created < MaxChats
                /\ created' = created + 1
                /\ storage' = saveChat(updatedChats, newChat)
                /\ currentChatId' = newChat.id
                /\ currentMessages' = <<>>
        /\ UNCHANGED <<status, submit, asked, cacheVars, textVars, httpVars>>

\* an API call of the running handleSubmit settles
ApiSettles ==
    \/ GenerateSqlReturns
    \/ \E hasData \in BOOLEAN : ExecuteSqlReturns(hasData)
    \/ \E ok \in BOOLEAN : GenerateInsightsSettles(ok)
    \/ ApiFails

InitClient == InitWith(AbsentFile)

NextClient ==
    \/ \E insightsEnabled \in BOOLEAN : handleSubmit(insightsEnabled)
    \/ ApiSettles
    \/ TimerFires
    \/ handleNewChat
    \/ \E chatId \in 1..MaxChats : handleSelectChat(chatId)
    \/ \E chatId \in 1..MaxChats : handleDeleteChat(chatId)

SpecClient == InitClient /\ [][NextClient]_vars

\* every API call returns or fails in the end, and a timer that was started
\* fires
SpecClientFair ==
    /\ InitClient
    /\ [][NextClient]_vars
    /\ WF_vars(ApiSettles)
    /\ WF_vars(TimerFires)

(***************************************************************************)
(* Properties                                                              *)
(***************************************************************************)

\* the similarities of the entries to the question
SimilaritiesTo(entries, question) ==
    [i \in 1..Len(entries) |-> cosineSimilarity(EmbeddingOf(question), entries[i].embedding)]

\* the indices of the entries of maximum similarity
BestIndices(entries, question) ==
    LET sims == SimilaritiesTo(entries, question)
    IN  {i \in 1..Len(entries) : \A j \in 1..Len(entries) : sims[j] <= sims[i]}

FirstOf(indices) == CHOOSE i \in indices : \A j \in indices : i <= j

\* what the lookup is to return: the sql of the first entry of maximum
\* similarity if that similarity reaches the threshold, no match otherwise
ExpectedMatch(entries, question) ==
    LET best == BestIndices(entries, question)
    IN  IF best # {} /\ SimilaritiesTo(entries, question)[FirstOf(best)] >= similarityThreshold
        THEN Sql(entries[FirstOf(best)].sql)
        ELSE Null

Logged(task, line) == line \in Range(task.log)

C2_SizeAtMostMaxAfterMutation ==
    [][\A r \in Requests :
          (\/ \E providerOk \in BOOLEAN, writeOk \in BOOLEAN :
                 CacheResultResumes(r, providerOk, writeOk)
           \/ \E writeOk \in BOOLEAN : ClearCache(r, writeOk))
          => Len(cache'[ProcOf(r)]) <= maxCacheSize]_vars

IsSortedByTimestamp(entries) ==
    \A i \in 1..Len(entries), j \in 1..Len(entries) :
        i <= j => entries[i].timestamp <= entries[j].timestamp

\* the last n elements of s
LastN(s, n) == IF Len(s) > n THEN SubSeq(s, Len(s) - n + 1, Len(s)) ELSE s

\* C3: in one process that starts on an empty store, every successful
\* cacheResult leaves the maxCacheSize entries inserted last, in the order of
\* their insertion: a call that overflows evicts exactly one entry, of the
\* smallest timestamp, and never the entry it has just inserted
C3_KeepsMostRecent ==
    /\ [](/\ Len(cache["A"]) <= maxCacheSize
          /\ IsSortedByTimestamp(cache["A"])
          /\ cache["A"] = file.content)
    /\ [][\A r \in SingleRequests :
             CacheResultResumes(r, TRUE, TRUE) =>
                LET new == Entry(tasks[r].question, tasks[r].sql, now)
                    all == Append(cache["A"], new)
                IN  /\ cache'["A"] = LastN(all, maxCacheSize)
                    /\ Len(all) > maxCacheSize =>
                          /\ \A i \in 1..Len(all) : all[1].timestamp <= all[i].timestamp
                          /\ cache'["A"][Len(cache'["A"])] = new
                          /\ Len(cache'["A"]) = Len(all) - 1]_vars

\* a cacheResult has just overflowed the capacity, evicted an entry and kept
\* the entry it inserted
C3_Witness ==
    /\ last.op = "generateSql"
    /\ Logged(last.task, "Cache full, removed oldest entry")
    /\ Len(cache["A"]) = maxCacheSize
    /\ cache["A"][maxCacheSize].question = last.task.question
    /\ cache["A"][maxCacheSize].timestamp = now

\* C4: findSimilar never throws: when the embedding call fails it returns no
\* match and generateSql goes on to the generator; a failed re-read of the
\* file does not stop the lookup
C4_FindSimilarNeverThrows ==
    [][\A r \in Requests :
          /\ \A providerOk \in BOOLEAN :
                FindSimilarResumes(r, providerOk) =>
                   LET found == IF tasks'[r].pc = "idle" THEN last'.task.cachedSql
                                ELSE tasks'[r].cachedSql
                   IN  /\ found.kind \in {"sql", "null"}
                       /\ ~providerOk => found = Null /\ tasks'[r].pc = "generateContent"
          /\ \A q \in Questions :
                CallGenerateSql(r, q, FALSE) => tasks'[r].pc = "findSimilar"]_vars

\* a lookup whose embedding call failed has reported no match and the call
\* is waiting for the generator
C4_Witness ==
    \E r \in Requests :
        /\ tasks[r].pc = "generateContent"
        /\ tasks[r].cachedSql = Null
        /\ Logged(tasks[r], "Error in findSimilar")

\* C5: a cacheResult whose embedding call fails completes without throwing
\* and leaves the store and the file as they were
C5_CacheResultProviderFailureIsNoOp ==
    [][\A r \in Requests, writeOk \in BOOLEAN :
          CacheResultResumes(r, FALSE, writeOk) =>
             /\ cache' = cache
             /\ file' = file
             /\ last'.ret.kind # "error"]_vars

\* a cacheResult whose embedding call failed has completed, with entries in
\* the store it left alone
C5_Witness ==
    /\ last.op = "generateSql"
    /\ Logged(last.task, "Error caching result")
    /\ last.ret.kind = "sql"
    /\ cache[ProcOf(last.request)] # <<>>

\* the formatted text of each generator output, and whether it is valid
Formatted == [raw \in RawOutputs |-> formatSqlCasing(StripFences(raw))]

Accepted == [raw \in RawOutputs |-> validateSqlSyntax(Formatted[raw]).isValid]

\* C6: the SQL passed to cacheResult, and stored by it, is formatSqlCasing of
\* the fence-stripped generator output and is accepted by validateSqlSyntax;
\* rejected SQL makes generateSql fail without a call of cacheResult, with the
\* store and the file unchanged, and is not returned
C6_OnlyValidatedSqlIsCached ==
    [][\A r \in Requests :
          /\ \A raw \in RawOutputs :
                GeneratorAnswers(r, raw) =>
                   /\ tasks'[r].pc = "cacheResult" <=> Accepted[raw]
                   /\ Accepted[raw] => tasks'[r].sql = Formatted[raw]
                   /\ ~Accepted[raw] =>
                         /\ tasks'[r].pc = "idle"
                         /\ last'.ret.kind = "error"
                         /\ last'.ret.text # Formatted[raw]
                         /\ cache' = cache
                         /\ file' = file
          /\ \A providerOk \in BOOLEAN, writeOk \in BOOLEAN :
                CacheResultResumes(r, providerOk, writeOk) =>
                   /\ Accepted[tasks[r].raw]
                   /\ tasks[r].sql = Formatted[tasks[r].raw]
                   /\ cache' # cache =>
                         cache'[ProcOf(r)][Len(cache'[ProcOf(r)])].sql = tasks[r].sql]_vars

\* one call has failed on rejected SQL while another stands at cacheResult
\* with fenced output stripped and formatted
C6_Witness ==
    /\ last.op = "generateSql"
    /\ last.ret.kind = "error"
    /\ last.task.raw = DeleteStatement
    /\ Logged(last.task, "Generated SQL failed validation")
    /\ \E r \in Requests :
          /\ tasks[r].pc = "cacheResult"
          /\ tasks[r].raw = FencedSelect
          /\ tasks[r].sql # FencedSelect
          /\ tasks[r].sql # toUpperCase(tasks[r].sql)

\* C7: failures of the embedding provider in findSimilar, in cacheResult or
\* in both never fail generateSql: valid generated SQL is returned as it is
\* with a working cache
C7_CacheFailuresNeverFailGenerateSql ==
    [][\A r \in Requests :
          /\ FindSimilarResumes(r, FALSE) => tasks'[r].pc = "generateContent"
          /\ \A raw \in RawOutputs :
                GeneratorAnswers(r, raw) /\ Accepted[raw] => tasks'[r].pc = "cacheResult"
          /\ \A providerOk \in BOOLEAN, writeOk \in BOOLEAN :
                CacheResultResumes(r, providerOk, writeOk) =>
                   /\ last'.ret.kind = "sql"
                   /\ last'.ret.text = Formatted[tasks[r].raw]]_vars

\* a call whose two embedding calls both failed has returned the SQL
C7_Witness ==
    /\ last.op = "generateSql"
    /\ Logged(last.task, "Error in findSimilar")
    /\ Logged(last.task, "Error caching result")
    /\ last.ret = Sql(Formatted[FencedSelect])

\* C8: after a cacheResult whose embedding call and write succeed, and after
\* a clearCache whose write succeeds, the file holds exactly the entries the
\* process holds; after the clearCache both are empty
C8_FileEqualsStoreAfterWrite ==
    [][\A r \in Requests :
          /\ CacheResultResumes(r, TRUE, TRUE) =>
                file'.exists /\ file'.content = cache'[ProcOf(r)]
          /\ ClearCache(r, TRUE) =>
                file'.exists /\ file'.content = <<>> /\ cache'[ProcOf(r)] = <<>>]_vars

\* a cacheResult has replaced a file that held entries, with an eviction
C8_Witness ==
    /\ last.op = "generateSql"
    /\ Logged(last.task, "Cached new result")
    /\ Logged(last.task, "Cache full, removed oldest entry")
    /\ ~Logged(last.task, "Failed to save semantic cache")
    /\ file.content = cache[ProcOf(last.request)]
    /\ Len(file.content) >= maxCacheSize

C10_ClearIsIrreversible ==
    \A e \in cleared :
        /\ e \notin Range(file.content)
        /\ \A p \in Procs \ unread : e \notin Range(cache[p])

\* C11: a process started on a file that is absent or holds no array of
\* entries starts with an empty store: an empty array, an entry count of 0
C11_StartsEmptyOnBadFile ==
    calls = 0 =>
       \A p \in Procs :
           ~file.exists \/ fileKind # "array" =>
              /\ shape[p] = "array"
              /\ cache[p] = <<>>
              /\ getStats(p).totalEntries = Number(0)

\* C12: a cacheResult whose write fails completes without throwing with the
\* new entry in the store, and an entry that no write saved stays in the
\* store of its process until a cacheResult evicts an entry or a clearCache
\* empties the store (no other process writes the file here)
C12_UnsavedEntryStays ==
    [][/\ \A r \in SharedRequests :
             CacheResultResumes(r, TRUE, FALSE) =>
                /\ last'.ret.kind = "sql"
                /\ Entry(tasks[r].question, tasks[r].sql, now) \in Range(cache'["A"])
       /\ \A e \in Range(cache["A"]) :
             "A" \in unsaved /\ e \notin Range(file.content) =>
                \/ e \in Range(cache'["A"])
                \/ last' # last /\ last'.op = "clearCache"
                \/ last' # last /\ Logged(last'.task, "Cache full, removed oldest entry")]_vars

(***************************************************************************)
(* Properties of the lookup and of the insertion                           *)
(***************************************************************************)

\* C23: findSimilar never writes the file and never appends, removes or
\* reorders entries; the one change it can make to the store of its process
\* is to replace the entries by the file's contents, and to record the file's
\* modification time, when the file is newer than the last read
C23_FindSimilarOnlyRereads ==
    [][\A r \in Requests :
          LET p == ProcOf(r)
          IN  /\ \A q \in Questions, readOk \in BOOLEAN :
                    CallGenerateSql(r, q, readOk) =>
                       /\ file' = file
                       /\ \A o \in Procs \ {p} :
                             cache'[o] = cache[o] /\ lastModified'[o] = lastModified[o]
                       /\ \/ cache'[p] = cache[p] /\ lastModified'[p] = lastModified[p]
                          \/ /\ file.exists /\ file.mtime > lastModified[p]
                             /\ cache'[p] = file.content
                             /\ lastModified'[p] = file.mtime
              /\ \A providerOk \in BOOLEAN :
                    FindSimilarResumes(r, providerOk) =>
                       file' = file /\ cache' = cache /\ lastModified' = lastModified]_vars

\* a lookup that re-read a file another process had written has returned a
\* hit, and the store of its process holds the file's two or more entries
C23_Witness ==
    /\ last.op = "generateSql"
    /\ last.task.pc = "findSimilar"
    /\ Logged(last.task, "Cache file modified externally, reloading...")
    /\ Logged(last.task, "Cache HIT!")
    /\ cache[ProcOf(last.request)] = file.content
    /\ Len(file.content) >= 2

\* C24: a lookup that finds a match makes generateSql return the cached sql
\* at once, with no call of the generator, the formatter, the guardrails or
\* cacheResult, and leaves the store and the file as they were
C24_HitReturnsCachedSqlAlone ==
    [][\A r \in Requests :
          LET hit == ExpectedMatch(cache[ProcOf(r)], tasks[r].question)
          IN  FindSimilarResumes(r, TRUE) /\ hit.kind = "sql" =>
                 /\ tasks'[r].pc = "idle"
                 /\ last'.request = r
                 /\ last'.ret = hit
                 /\ last'.task.pc = "findSimilar"
                 /\ last'.task.raw = <<>>
                 /\ last'.task.sql = <<>>
                 /\ ~Logged(last'.task, "Cached new result")
                 /\ cache' = cache
                 /\ file' = file
                 /\ lastModified' = lastModified]_vars

\* a call has returned the sql of an entry of the store without a re-read,
\* and the request that made it is idle again
C24_Witness ==
    /\ last.op = "generateSql"
    /\ last.task.pc = "findSimilar"
    /\ last.task.log = <<"Cache HIT!">>
    /\ last.ret.kind = "sql"
    /\ \E i \in 1..Len(cache[ProcOf(last.request)]) :
          last.ret = Sql(cache[ProcOf(last.request)][i].sql)
    /\ tasks[last.request].pc = "idle"

\* the last call to return pushed an entry and wrote the file, evicting
\* nothing, after calls of the same process, suspended in cacheResult
\* together with it, had done the same
BothInserted ==
    /\ last.op = "generateSql"
    /\ last.task.pc = "cacheResult"
    /\ last.task.rivals # <<>>
    /\ Logged(last.task, "Cached new result")
    /\ ~Logged(last.task, "Failed to save semantic cache")
    /\ ~Logged(last.task, "Cache full, removed oldest entry")

\* entries holds, as its last entry, the one a call pushed for question and sql
EndsWithEntryOf(entries, question, sql) ==
    /\ entries # <<>>
    /\ entries[Len(entries)].question = question
    /\ entries[Len(entries)].sql = sql

\* C25 as stated: when one of two calls of a process that were suspended in
\* cacheResult together has completed without error, the other can complete
\* without error, with no eviction, and leave a file that lacks one of the
\* two new entries
C25_AnInsertionCanBeLost ==
    \A r \in RaceRequests :
        (/\ tasks[r].pc = "cacheResult"
         /\ tasks[r].rivals # <<>>
         /\ Len(cache["A"]) < maxCacheSize)
           => LET done == cacheResult("A", tasks[r].question, tasks[r].sql, TRUE, TRUE)
                  saved == done.file.content
              IN  \/ \E i \in 1..Len(tasks[r].rivals) : tasks[r].rivals[i] \notin Range(saved)
                  \/ ~EndsWithEntryOf(saved, tasks[r].question, tasks[r].sql)
                  \/ Len(saved) < Len(tasks[r].rivals) + 1

\* C25: when two calls of one process that were suspended in cacheResult
\* together have both completed with their embedding calls and their writes
\* succeeding and no eviction, the file holds both new entries
C25_NoInsertionIsLost ==
    BothInserted =>
       /\ \A i \in 1..Len(last.task.rivals) : last.task.rivals[i] \in Range(file.content)
       /\ EndsWithEntryOf(file.content, last.task.question, last.task.sql)
       /\ Len(file.content) >= Len(last.task.rivals) + 1

\* two calls that were suspended together have both inserted, for different
\* questions, and both requests are idle again
C25_Witness ==
    /\ BothInserted
    /\ last.task.rivals[1].question # last.task.question
    /\ \A r \in RaceRequests : tasks[r].pc = "idle"
    /\ Len(file.content) = 2

\* C26: the file a process writes in cacheResult holds that process's store
\* and nothing else, so an entry that another process inserted and the writer
\* never read is not in it; and at the next re-read of a process every entry
\* of its store that the file lacks is gone from its store
C26_LastWriterWinsAcrossProcesses ==
    [][\A r \in Requests :
          LET p == ProcOf(r)
          IN  /\ CacheResultResumes(r, TRUE, TRUE) =>
                    /\ file'.content = cache'[p]
                    /\ \A o \in Procs \ {p} :
                          \A e \in Range(cache[o]) \ Range(cache'[p]) :
                              e \notin Range(file'.content) /\ e \in Range(cache'[o])
              /\ \A q \in Questions :
                    (/\ CallGenerateSqlWithin(MaxCallsRacing, r, q, TRUE)
                     /\ file.exists /\ file.mtime > lastModified[p])
                       => \A e \in Range(cache[p]) \ Range(file.content) :
                             e \notin Range(cache'[p])]_vars

\* both processes have inserted and written once (the file was written
\* twice), the file holds the one entry of the later writer B, and process A,
\* at its next lookup, has re-read the file and holds that entry alone
C26_Witness ==
    \E r \in Requests :
        /\ ProcOf(r) = "A"
        /\ tasks[r].pc = "findSimilar"
        /\ Logged(tasks[r], "Cache file modified externally, reloading...")
        /\ ProcOf(last.request) = "B"
        /\ Logged(last.task, "Cached new result")
        /\ ~Logged(last.task, "Failed to save semantic cache")
        /\ file.mtime = 2
        /\ Len(file.content) = 1
        /\ file.content[1].question = "q3"
        /\ cache["B"] = file.content
        /\ cache["A"] = file.content

\* the entries of a question
EntriesOf(entries, question) == SelectSeq(entries, LAMBDA e : e.question = question)

\* C27: every cacheResult whose embedding call succeeds appends one entry,
\* also when the store holds an entry of the same question: a store of fewer
\* than maxCacheSize entries grows by one and holds one entry more of the
\* question, a store of maxCacheSize entries stays at maxCacheSize
C27_CacheResultNeverDeduplicates ==
    [][\A r \in RaceRequests, writeOk \in BOOLEAN :
          CacheResultResumes(r, TRUE, writeOk) /\ Len(cache["A"]) <= maxCacheSize =>
             /\ EndsWithEntryOf(cache'["A"], tasks[r].question, tasks[r].sql)
             /\ IF Len(cache["A"]) < maxCacheSize
                THEN /\ Len(cache'["A"]) = Len(cache["A"]) + 1
                     /\ Len(EntriesOf(cache'["A"], tasks[r].question))
                           = Len(EntriesOf(cache["A"], tasks[r].question)) + 1
                ELSE Len(cache'["A"]) = maxCacheSize]_vars

\* two requests that asked the same question and both missed were suspended
\* in cacheResult together, and the store holds two entries of the question
C27_Witness ==
    /\ last.op = "generateSql"
    /\ Logged(last.task, "Cache MISS")
    /\ Logged(last.task, "Cached new result")
    /\ last.task.rivals # <<>>
    /\ last.task.rivals[1].question = last.task.question
    /\ Len(EntriesOf(cache["A"], last.task.question)) = 2

(***************************************************************************)
(* Properties of the guardrails and the formatter                          *)
(***************************************************************************)

\* word stands in text at position j in any letter case, with no letter,
\* digit or underscore next to it
StandsAt(text, j, word) ==
    /\ j + Len(word) - 1 <= Len(text)
    /\ \A k \in 1..Len(word) : UpperChar(text[j + k - 1]) = UpperChar(word[k])
    /\ (j = 1 \/ ~IsWordChar(text[j - 1]))
    /\ (j + Len(word) > Len(text) \/ ~IsWordChar(text[j + Len(word)]))

StandsIn(text, word) == \E j \in 1..Len(text) : StandsAt(text, j, word)

\* word occurs in text, in any letter case, only inside longer identifiers
OnlyInsideIdentifiers(text, word) ==
    /\ Includes(toUpperCase(text), toUpperCase(word))
    /\ ~StandsIn(text, word)

ErrorNaming(result, operation) ==
    <<"Prohibited operation detected", operation>> \in Range(result.errors)

NoDenylistError(result) ==
    \A n \in DOMAIN prohibitedOperations : ~ErrorNaming(result, prohibitedOperations[n])

\* the statement begins with SELECT / has the word FROM in it
BeginsWithSelect(text) == StartsWith(toUpperCase(Trim(text)), <<"S", "E", "L", "E", "C", "T">>)

HasFrom(text) == StandsIn(text, <<"F", "R", "O", "M">>)

StructureBroken(text) ==
    \/ ~BeginsWithSelect(text)
    \/ ~HasFrom(text)
    \/ CountChar(text, "(") # CountChar(text, ")")
    \/ CountChar(text, "'") % 2 # 0
    \/ CountChar(text, "\"") % 2 # 0
    \/ CountChar(text, ";") > 1

\* C14: validateSqlSyntax returns invalid with an error naming the operation
\* for every text that holds a denylisted operation as a whole word in any
\* letter case; an operation that occurs only inside longer identifiers gets
\* no error, and a text whose only denylisted letters are inside identifiers
\* and that breaks no other rule is valid
C14_DenylistMatchesWholeWords ==
    applied.fn = "validateSqlSyntax" =>
       /\ \A n \in DOMAIN prohibitedOperations :
             LET operation == prohibitedOperations[n]
             IN  /\ StandsIn(input, operation) =>
                       ~applied.result.isValid /\ ErrorNaming(applied.result, operation)
                 /\ OnlyInsideIdentifiers(input, operation) =>
                       ~ErrorNaming(applied.result, operation)
       /\ (/\ \E n \in DOMAIN prohibitedOperations :
                 OnlyInsideIdentifiers(input, prohibitedOperations[n])
           /\ \A n \in DOMAIN prohibitedOperations : ~StandsIn(input, prohibitedOperations[n])
           /\ Trim(input) # <<>>
           /\ ~StructureBroken(input)) => applied.result.isValid

\* a SELECT over created_by with Drop after it was refused with an error that
\* names DROP and none that names CREATE
C14_Witness ==
    /\ applied.fn = "validateSqlSyntax"
    /\    /\ BeginsWithSelect(input)
          /\ Includes(input, <<"D", "r", "o", "p">>)
          /\ OnlyInsideIdentifiers(input, <<"C", "R", "E", "A", "T", "E">>)
          /\ ErrorNaming(applied.result, <<"D", "R", "O", "P">>)
          /\ ~ErrorNaming(applied.result, <<"C", "R", "E", "A", "T", "E">>)

\* C15: validateSqlSyntax returns invalid for every text that does not begin
\* with SELECT, has no FROM, has unequal counts of ( and ), an odd count of
\* single or of double quotes, or more than one semicolon
C15_StructuralRulesInvalidate ==
    applied.fn = "validateSqlSyntax" /\ StructureBroken(input) => ~applied.result.isValid

\* a SELECT with nothing wrong but a closing parenthesis too many was refused
C15_Witness ==
    /\ applied.fn = "validateSqlSyntax"
    /\ BeginsWithSelect(input) /\ HasFrom(input)
    /\ CountChar(input, ")") > CountChar(input, "(")
    /\ CountChar(input, "'") = 0 /\ CountChar(input, "\"") = 0 /\ CountChar(input, ";") = 0
    /\ NoDenylistError(applied.result)
    /\ ~applied.result.isValid

\* C16: the result of validateSqlSyntax has isValid true exactly when its
\* list of errors is empty, whatever its list of warnings holds
C16_ValidIffNoErrors ==
    applied.fn = "validateSqlSyntax" =>
       (applied.result.isValid <=> applied.result.errors = <<>>)

\* a text was found valid with warnings, one of them a suspected typo
C16_Witness ==
    /\ applied.fn = "validateSqlSyntax"
    /\ applied.result.isValid
    /\ applied.result.errors = <<>>
    /\ \E n \in DOMAIN applied.result.warnings :
          applied.result.warnings[n][1] = "Possible typo in keyword"

\* C18: validateInput rejects every text longer than InputLimit characters
\* and every text in which a forbidden verb stands as a word of its own, in
\* any letter case, wherever in the text, the last word included
C18_ValidateInputRejectsEveryVerb ==
    applied.fn = "validateInput" =>
       /\ Len(input) > InputLimit => ~applied.result.isValid
       /\ (\E kw \in forbiddenKeywords : StandsIn(input, kw)) => ~applied.result.isValid

\* C19: formatSqlCasing applied to its own result returns that result
C19_FormatIsIdempotent ==
    applied.fn = "formatSqlCasing" => formatSqlCasing(applied.result) = applied.result

\* C20: where a keyword of the formatter stands on word boundaries in the
\* input, in whatever case, the output has the keyword in upper case at the
\* same place; GROUP BY and ORDER BY are among the keywords
C20_KeywordsComeOutUppercase ==
    applied.fn = "formatSqlCasing" =>
       \A m \in KeywordMatches(input) :
           SubSeq(applied.result, m[2], m[2] + Len(keywords[m[1]]) - 1)
              = toUpperCase(keywords[m[1]])

\* a token is a literal: digits only, or a quote first
IsLiteral(token) ==
    \/ \A i \in 1..Len(token) : token[i] \in Digits
    \/ token[1] \in {"'", "\""}

\* C21: of the tokens that whitespace and the marks , ( ) ; delimit, each one
\* that is digits only or begins with a quote stands in the output exactly as
\* in the input, and each other token that is no keyword stands there in
\* lower case, a token with a dot in it included
C21_LiteralsStayOthersLowercased ==
    applied.fn = "formatSqlCasing" =>
       LET before == SplitTokens(input)
           after  == SplitTokens(applied.result)
       IN  /\ Len(after) = Len(before)
           /\ \A n \in 1..Len(before) :
                 LET token == before[n]
                 IN  IF IsSeparator(token[1]) THEN TRUE
                     ELSE IF IsLiteral(token) THEN after[n] = token
                     ELSE IF toUpperCase(token) \in uppercaseKeywords THEN TRUE
                     ELSE after[n] = toLowerCase(token)

\* the same text whatever the case of its letters
SameIgnoringCase(s, t) == toLowerCase(s) = toLowerCase(t)

\* C28 as stated: for every input the output of formatSqlCasing has the
\* length of the input and equals it when letter case is ignored
C28_OnlyLetterCaseChangesAnyInput ==
    applied.fn = "formatSqlCasing" =>
       /\ Len(applied.result) = Len(input)
       /\ SameIgnoringCase(applied.result, input)

\* C28: for every input of characters whose lower case is one character
\* each, the output of formatSqlCasing has the length of the input and
\* equals it when letter case is ignored
C28_OnlyLetterCaseChanges ==
    applied.fn = "formatSqlCasing" /\ DottedI \notin Range(input) =>
       /\ Len(applied.result) = Len(input)
       /\ SameIgnoringCase(applied.result, input)

\* a text with separators, a dotted name and a keyword in lower case came
\* out changed, with its length and its separators kept
C28_Witness ==
    /\ applied.fn = "formatSqlCasing"
    /\ DottedI \notin Range(input)
    /\ applied.result # input
    /\ Len(applied.result) = Len(input)
    /\ \E i \in 1..Len(input) : input[i] = "." /\ applied.result[i] = "."
    /\ \E i \in 1..Len(input) : input[i] = ";" /\ applied.result[i] = ";"

(***************************************************************************)
(* Properties of the routes                                                *)
(***************************************************************************)

\* whether validateSqlSyntax accepts a statement of a request, and whether
\* validateInput accepts the text of a question, worked out once
SqlAccepted == [sql \in {b.value : b \in ExecuteBodies} |-> validateSqlSyntax(sql).isValid]

QuestionAccepted ==
    [q \in {b.value : b \in GenerateBodies} |-> validateInput(TextOf(q)).isValid]

\* C13: every statement that POST /execute hands to executeSql is one that
\* validateSqlSyntax accepts, and a request whose sql is missing or refused by
\* validateSqlSyntax is answered with status 400 without a call of executeSql
C13_OnlyValidatedSqlIsExecuted ==
    /\ [](\A sql \in executed : SqlAccepted[sql])
    /\ [][\A body \in ExecuteBodies, apiOk \in BOOLEAN :
             /\ PostExecute(body, apiOk)
             /\ (~body.has \/ ~SqlAccepted[body.value])
             => http'.status = 400 /\ executed' = executed]_vars

\* a DELETE statement was answered with 400 after a SELECT had been executed,
\* and only the SELECT reached executeSql
C13_Witness ==
    /\ http.route = "execute"
    /\ http.body.has /\ http.body.value = DeleteStatement
    /\ http.status = 400
    /\ executed = {PlainSelect}

\* a message lists the descriptions after its heading, in their order
Mentions(message, descriptions) ==
    \E offset \in 1..(Len(message) - Len(descriptions)) :
        \A i \in 1..Len(descriptions) : message[offset + i] = descriptions[i]

\* the entries of ValidationResult.errors for every answer of the generator
ViolationDescriptions ==
    [raw \in RawOutputs |-> validateSqlSyntax(Formatted[raw]).errors]

\* C22: when validateSqlSyntax rejects the generated statement, the error
\* that generateSql raises to its caller and the error message of the HTTP
\* response built from it contain the entries of ValidationResult.errors
C22_GuardrailFailureIsDescribed ==
    (/\ last.op = "generateSql"
     /\ last.task.raw \in RawOutputs
     /\ ~Accepted[last.task.raw])
       => /\ last.ret.kind = "error"
          /\ Mentions(last.ret.text, ViolationDescriptions[last.task.raw])
          /\ \A nodeEnv \in NodeEnvs :
                Mentions(generateSqlResponse(last.ret, nodeEnv).error,
                         ViolationDescriptions[last.task.raw])

\* C17: a POST /generate whose question is missing, empty or rejected by
\* validateInput is answered with status 400, and nothing of generateSql
\* runs: no request reaches the embedding provider or the generator, and the
\* store and the file stay as they are
C17_RejectedQuestionReachesNoModel ==
    [][\A r \in HttpRequests, body \in GenerateBodies, readOk \in BOOLEAN :
          /\ PostGenerate(r, body, readOk)
          /\ (\/ ~body.has
              \/ body.value = ""
              \/ ~QuestionAccepted[body.value])
          => /\ http'.status = 400
             /\ tasks' = tasks /\ calls' = calls
             /\ cache' = cache /\ file' = file /\ lastModified' = lastModified]_vars

\* a question that starts with Drop was answered with 400 while an earlier
\* question was waiting for the generator, with an entry in the store
C17_Witness ==
    /\ http.route = "generate"
    /\ http.body.has /\ http.body.value = "q4"
    /\ http.status = 400
    /\ \E r \in HttpRequests : tasks[r].pc = "generateContent"
    /\ cache["A"] # <<>>

(***************************************************************************)
(* Properties of the chat client                                           *)
(***************************************************************************)

\* the stored messages of a chat, none for a chat that is not stored
StoredMessages(chatId) ==
    IF getChat(storage, chatId) = 0 THEN <<>> ELSE storage[getChat(storage, chatId)].messages

\* no handleSubmit is running and status is idle again
NoRequestInFlight == submit.pc = "none" /\ status = "idle"

\* every assistant message that is stored is stored in the chat in which its
\* question was submitted
RepliesStayInTheirChat ==
    \A i \in 1..Len(storage) : \A j \in 1..Len(storage[i].messages) :
        storage[i].messages[j].role = "assistant"
           => asked[storage[i].messages[j].question] = storage[i].id

\* C29: whenever no request is in flight, the displayed messages are the
\* stored messages of the selected chat, and every assistant reply is stored
\* only in the chat in which its question was asked, whatever was selected,
\* created or deleted while a request was in flight
C29_DisplayedAreStoredAndRepliesStay ==
    NoRequestInFlight =>
       /\ currentMessages = StoredMessages(currentChatId)
       /\ RepliesStayInTheirChat

\* the pairs of status values that one step may lead from and to
StatusSteps ==
    {<<"idle", "generating">>, <<"generating", "executing">>, <<"generating", "error">>,
     <<"executing", "complete">>, <<"executing", "error">>,
     <<"complete", "idle">>, <<"error", "idle">>}

\* C30: a question is submitted only when status is idle and no handleSubmit
\* is running, the status moves only along idle, generating, executing,
\* complete or error, idle, and, every API call settling and every timer
\* firing in the end, a status that is not idle leads to idle
C30_OneQuestionAtATimeBackToIdle ==
    /\ [][LET submitted == Len(asked') > Len(asked)
               moved == status' # status
           IN  /\ submitted => status = "idle" /\ submit.pc = "none"
               /\ submitted => status' = "generating" /\ submit'.pc = "generateSql"
               /\ moved => <<status, status'>> \in StatusSteps
               /\ (submit.pc # "none") = (status # "idle")]_vars
    /\ (status # "idle") ~> (status = "idle")

\* a second question is in flight after the first one failed and the status
\* came back to idle
C30_Witness ==
    /\ Len(asked) = 2
    /\ status = "executing"
    /\ submit.pc = "executeSql"
    /\ \E i \in 1..Len(storage) :
          errorMessage(1) \in Range(storage[i].messages)

=============================================================================
